---- MODULE Spec2Model ----
(***************************************************************************)
(* CourtIQ data pipeline (scripts/*.py): batched upserts, the refresh      *)
(* ledger, tier classification and percentile ranking, modelled as state   *)
(* machines over the datastore tables and each job's control position.     *)
(*                                                                         *)
(* Number encodings                                                        *)
(*   - minutes per game are kept in hundredths (20.0 -> 2000, 19.99 ->     *)
(*     1999);                                                              *)
(*   - compute_percentile_rank returns whole percents (0..100);            *)
(*   - compute_percentile_map rounds to one decimal, kept in tenths of a   *)
(*     percent (33.3 -> 333, 100.0 -> 1000);                               *)
(*   - the percentile columns of player_advanced_stats are kept in tenths  *)
(*     of a percent;                                                       *)
(*   - the rate limiter's times are in half seconds (2.0 s -> 4);          *)
(*   - Python None / pandas NaN is NULL.                                   *)
(***************************************************************************)
EXTENDS Integers, Naturals, Sequences, FiniteSets, TLC

VARIABLES
    \* ---- batched upsert loop (upsert_players, upsert_shot_records, ...)
    u_table,      \* table the running upsert writes to
    u_batch,      \* UPSERT_BATCH_SIZE of the calling script
    u_records,    \* the list `records` handed to the upsert function
    u_i,          \* loop variable i of range(0, total, UPSERT_BATCH_SIZE)
    u_upserted,   \* local `upserted`
    u_ops,        \* chunk upsert operations issued so far: [first, size, ok, applied]
    u_pc,         \* "idle" | "loop" | "done"
    u_store,      \* table name -> record keys persisted in that table
    \* ---- datastore tables with modelled columns
    players,      \* nba_player_id -> [exists, is_active, tier]
    ledger,       \* data_refresh_log: row id -> [job_name, status, players_updated]
    adv,          \* player_advanced_stats: <<nba_player_id, season>> -> row
    \* ---- the running script (one process)
    job,          \* JOB_NAME of the script, "none" before it starts
    start_players,\* (history) the players table when the process started
    start_store,  \* (history) u_store when the process started
    pc,           \* position in main()
    log_id,       \* local log_id (0 before log_refresh_start returns)
    exit_code,    \* process exit status, NULL while it runs
    calls,        \* refresh-log helpers invoked and ValueErrors raised by main, in order
    api_requests, \* upstream API requests issued so far
    units,        \* the list the per-unit loop iterates (players or seasons)
    unit_i,       \* number of units already handled
    all_records,  \* local all_records / records
    processed,    \* local players_processed / updated
    no_resume,    \* args.no_resume
    already_fetched, \* fetch_shot_charts: local already_fetched
    failed,       \* (history) the units of the loop whose fetch raised
    index_df,     \* fetch_players: player_index_df
    stats_df,     \* fetch_players: league_stats_df
    \* ---- percentile ranking (calculate_percentiles, fetch_advanced_stats)
    p_rows,       \* the rows / records the percentile functions are called on
    p_all,        \* value returned by compute_all_percentiles(p_rows)
    p_all_done,   \* compute_all_percentiles has returned
    p_applied,    \* value returned by apply_percentiles(p_rows)
    p_app_done,   \* apply_percentiles has returned
    \* ---- one call of a with_retry wrapper
    r_k,          \* max_retries
    r_d,          \* base_delay, in seconds
    r_attempt,    \* loop variable `attempt`
    r_events,     \* what the wrapper did so far: invocations and sleeps, in order
    r_pc,         \* "idle" | "loop" | "returned" | "raised"
    \* ---- the rate limiter (time in half seconds)
    rl_clock,     \* time.time()
    rl_last,      \* the global _last_request_time
    rl_pc,        \* "idle" | "called" (inside rate_limit)
    rl_wake,      \* earliest time the running call can stamp and return
    rl_returns,   \* (history) the calls of rate_limit: [called, at, slept]
    \* ---- build_season_records of fetch_advanced_stats
    b_adv_df,     \* argument adv_df
    b_base_df,    \* argument base_df
    b_tier1_ids,  \* argument tier1_ids
    b_records,    \* the returned records
    b_pc,         \* "idle" | "ready" | "returned" | "raised"
    \* ---- one call of log_refresh_failed
    l_text,       \* argument error_message
    l_now,        \* datetime.now(timezone.utc) read by the call
    l_before,     \* (history) data_refresh_log when the call was made
    l_pc,         \* "idle" | "called" | "returned" | "raised"
    \* ---- the player loop of fetch_shot_charts (step 3), its requests and sleeps
    pace_n,       \* len(players_to_fetch)
    pace_done,    \* number of players handled so far
    pace_failed,  \* local players_failed
    pace_events,  \* the upstream requests and the time.sleep calls of main, in order
    pace_pc,      \* "idle" | "loop" | "done"
    \* ---- the building of one player's shot records
    sh_df,        \* fetch_shot_charts: shots_df, the ShotChartDetail rows
    sh_seen,      \* seed_mock_data: seen_keys
    sh_records,   \* the records built so far (records / shots)
    sh_pc,        \* "idle" | "transform" | "generate" | "upsert" | "done"
    \* ---- one call of extract_player_seasons of fetch_season_stats
    c_df,         \* argument career_df, the SeasonTotalsRegularSeason rows
    c_records,    \* the returned records
    c_pc          \* "idle" | "ready" | "returned"

upsertVars == <<u_table, u_batch, u_records, u_i, u_upserted, u_ops, u_pc, u_store>>

pctVars == <<p_rows, p_all, p_all_done, p_applied, p_app_done>>

ctlVars == <<job, start_players, start_store, pc, log_id, exit_code, calls, api_requests>>

localVars == <<units, unit_i, all_records, processed, no_resume, already_fetched, failed,
               index_df, stats_df>>

jobVars == <<players, ledger, adv, ctlVars, localVars>>

retryVars == <<r_k, r_d, r_attempt, r_events, r_pc>>

rateVars == <<rl_clock, rl_last, rl_pc, rl_wake, rl_returns>>

buildVars == <<b_adv_df, b_base_df, b_tier1_ids, b_records, b_pc>>

logVars == <<l_text, l_now, l_before, l_pc>>

paceVars == <<pace_n, pace_done, pace_failed, pace_events, pace_pc>>

shotVars == <<sh_df, sh_seen, sh_records, sh_pc>>

careerVars == <<c_df, c_records, c_pc>>

moreVars == <<logVars, paceVars, shotVars, careerVars>>

fetchVars == <<retryVars, rateVars, buildVars, moreVars>>

vars == <<upsertVars, pctVars, jobVars, fetchVars>>

NULL == -1

Min(a, b) == IF a < b THEN a ELSE b

Range(s) == {s[k] : k \in 1..Len(s)}

\* ceil(n / b) for n >= 0, b > 0
CeilDiv(n, b) == (n + b - 1) \div b

(***************************************************************************)
(* Bounds of the model                                                     *)
(***************************************************************************)
MaxRecords == 125

(***************************************************************************)
(* Program constants                                                       *)
(***************************************************************************)
UPSERT_BATCH_SIZE == 50
SHOT_UPSERT_BATCH_SIZE == 100
NUM_SEASONS == 4

\* get_seasons(NUM_SEASONS): season 1 is get_current_season(), 2.. the
\* seasons before it
Seasons == 1..NUM_SEASONS
CurrentSeason == 1

BatchSizes == {UPSERT_BATCH_SIZE, SHOT_UPSERT_BATCH_SIZE}

(***************************************************************************)
(* Batched upsert: for i in range(0, total, B): batch = records[i:i+B];    *)
(* try: upsert(batch); upserted += len(batch)  except: log; continue       *)
(***************************************************************************)

\* records[i : i + B]  (Python slice, i is 0-based)
Batch(records, i, B) == SubSeq(records, i + 1, Min(i + B, Len(records)))

Tables == {"records", "players", "player_season_stats", "player_advanced_stats",
           "game_logs", "shot_chart_data"}

NoPlayer == [exists |-> FALSE, is_active |-> FALSE, tier |-> 0]

\* the player_advanced_stats row an upserted record leaves: the statistics
\* the percentile jobs read, the five percentile columns, and (history) the
\* qualification rule each stored percentile was computed under
AdvRow(r) ==
    [exists |-> TRUE,
     per |-> r.per, ts_pct |-> r.ts_pct, usg_pct |-> r.usg_pct, ws |-> r.ws, bpm |-> r.bpm,
     per_pctile |-> r.per_pctile, ts_pctile |-> r.ts_pctile,
     usg_pctile |-> r.usg_pctile, ws_pctile |-> r.ws_pctile,
     bpm_pctile |-> r.bpm_pctile,
     rule |-> r.rule]

\* the (nba_player_id, game_id) of the rows of a table
GameKeys(rows) == {<<row.nba_player_id, row.k>> : row \in rows}

\* the largest row id of a table (0 for an empty table)
MaxId(rows) ==
    IF rows = {} THEN 0
    ELSE CHOOSE m \in {row.id : row \in rows} : \A row \in rows : row.id <= m

\* game_logs rows after .upsert(batch, on_conflict="nba_player_id,game_id"):
\* a record whose (nba_player_id, game_id) is in the table updates that
\* row, any other record is inserted as a new row (id: the row's identity;
\* k: the game_id)
UpsertOnConflict(rows, batch) ==
    LET KeyOf(i) == <<batch[i].nba_player_id, batch[i].k>>
        inserted == {i \in 1..Len(batch) :
                        /\ KeyOf(i) \notin GameKeys(rows)
                        /\ \A j \in 1..(i - 1) : KeyOf(j) # KeyOf(i)}
    IN  rows \cup {[nba_player_id |-> batch[i].nba_player_id, k |-> batch[i].k,
                    id |-> MaxId(rows) + i] : i \in inserted}

\* mutant: a players row that already exists keeps its stored columns
DatastoreUpsert_InsertOnly(table, batch) ==
    CASE table = "players" ->
            /\ players' = [pid \in DOMAIN players |->
                             IF /\ ~players[pid].exists
                                /\ \E k \in 1..Len(batch) : batch[k].nba_player_id = pid
                             THEN LET r == batch[CHOOSE k \in 1..Len(batch) :
                                                   batch[k].nba_player_id = pid]
                                  IN  [exists |-> TRUE, is_active |-> r.is_active,
                                       tier |-> r.tier]
                             ELSE players[pid]]
            /\ UNCHANGED <<u_store, adv>>
      [] table = "player_advanced_stats" ->
            /\ adv' = [key \in DOMAIN adv |->
                         IF \E k \in 1..Len(batch) :
                               <<batch[k].nba_player_id, batch[k].season>> = key
                         THEN AdvRow(batch[CHOOSE k \in 1..Len(batch) :
                                 <<batch[k].nba_player_id, batch[k].season>> = key])
                         ELSE adv[key]]
            /\ UNCHANGED <<u_store, players>>
      [] table = "game_logs" ->
            /\ u_store' = [u_store EXCEPT ![table] = UpsertOnConflict(@, batch)]
            /\ UNCHANGED <<players, adv>>
      [] OTHER ->
            /\ u_store' = [u_store EXCEPT ![table] = @ \cup Range(batch)]
            /\ UNCHANGED <<players, adv>>

\* rows after a plain insert of the batch
InsertRows(rows, batch) ==
    rows \cup {[nba_player_id |-> batch[i].nba_player_id, k |-> batch[i].k,
                id |-> MaxId(rows) + i] : i \in 1..Len(batch)}

\* mutant: game_logs records are inserted without a conflict key
DatastoreUpsert_Append(table, batch) ==
    CASE table = "players" ->
            /\ players' = [pid \in DOMAIN players |->
                             IF \E k \in 1..Len(batch) : batch[k].nba_player_id = pid
                             THEN LET r == batch[CHOOSE k \in 1..Len(batch) :
                                                   batch[k].nba_player_id = pid]
                                  IN  [exists |-> TRUE, is_active |-> r.is_active,
                                       tier |-> r.tier]
                             ELSE players[pid]]
            /\ UNCHANGED <<u_store, adv>>
      [] table = "player_advanced_stats" ->
            /\ adv' = [key \in DOMAIN adv |->
                         IF \E k \in 1..Len(batch) :
                               <<batch[k].nba_player_id, batch[k].season>> = key
                         THEN AdvRow(batch[CHOOSE k \in 1..Len(batch) :
                                 <<batch[k].nba_player_id, batch[k].season>> = key])
                         ELSE adv[key]]
            /\ UNCHANGED <<u_store, players>>
      [] table = "game_logs" ->
            /\ u_store' = [u_store EXCEPT ![table] = InsertRows(@, batch)]
            /\ UNCHANGED <<players, adv>>
      [] OTHER ->
            /\ u_store' = [u_store EXCEPT ![table] = @ \cup Range(batch)]
            /\ UNCHANGED <<players, adv>>

\* Effect of one successful chunk upsert on the datastore: every record of
\* the batch is inserted, or replaces the row with its conflict key.  The
\* players table keeps the columns is_active and tier of each row.
DatastoreUpsert(table, batch) ==
    CASE table = "players" ->
            /\ players' = [pid \in DOMAIN players |->
                             IF \E k \in 1..Len(batch) : batch[k].nba_player_id = pid
                             THEN LET r == batch[CHOOSE k \in 1..Len(batch) :
                                                   batch[k].nba_player_id = pid]
                                  IN  [exists |-> TRUE, is_active |-> r.is_active,
                                       tier |-> r.tier]
                             ELSE players[pid]]
            /\ UNCHANGED <<u_store, adv>>
      [] table = "player_advanced_stats" ->
            /\ adv' = [key \in DOMAIN adv |->
                         IF \E k \in 1..Len(batch) :
                               <<batch[k].nba_player_id, batch[k].season>> = key
                         THEN AdvRow(batch[CHOOSE k \in 1..Len(batch) :
                                 <<batch[k].nba_player_id, batch[k].season>> = key])
                         ELSE adv[key]]
            /\ UNCHANGED <<u_store, players>>
      [] table = "game_logs" ->
            /\ u_store' = [u_store EXCEPT ![table] = UpsertOnConflict(@, batch)]
            /\ UNCHANGED <<players, adv>>
      [] OTHER ->
            /\ u_store' = [u_store EXCEPT ![table] = @ \cup Range(batch)]
            /\ UNCHANGED <<players, adv>>

\* entry of the upsert function: total = len(records); upserted = 0
UpsertEnter(table, B, records) ==
    /\ u_table' = table
    /\ u_batch' = B
    /\ u_records' = records
    /\ u_i' = 0
    /\ u_upserted' = 0
    /\ u_ops' = <<>>
    /\ u_pc' = "loop"

\* one loop iteration whose .execute() returns
UpsertChunkOk ==
    /\ u_pc = "loop"
    /\ u_i < Len(u_records)
    /\ LET batch == Batch(u_records, u_i, u_batch) IN
         /\ DatastoreUpsert(u_table, batch)
         /\ u_upserted' = u_upserted + Len(batch)
         /\ u_ops' = Append(u_ops, [first |-> u_i, size |-> Len(batch), ok |-> TRUE,
                                     applied |-> TRUE])
    /\ u_i' = u_i + u_batch
    /\ UNCHANGED <<u_table, u_batch, u_records, u_pc>>

\* mutant: the except branch aborts the loop instead of continuing
UpsertChunkRaises_Abort ==
    /\ u_pc = "loop"
    /\ u_i < Len(u_records)
    /\ LET batch == Batch(u_records, u_i, u_batch) IN
         \E applied \in BOOLEAN :
            /\ IF applied THEN DatastoreUpsert(u_table, batch)
               ELSE UNCHANGED <<u_store, players, adv>>
            /\ u_ops' = Append(u_ops, [first |-> u_i, size |-> Len(batch), ok |-> FALSE,
                                        applied |-> applied])
    /\ u_i' = Len(u_records)
    /\ UNCHANGED <<u_table, u_batch, u_records, u_upserted, u_pc>>

\* one loop iteration whose .execute() raises (the write may or may not
\* have reached the datastore): logged, `continue`
UpsertChunkRaises ==
    /\ u_pc = "loop"
    /\ u_i < Len(u_records)
    /\ LET batch == Batch(u_records, u_i, u_batch) IN
         \E applied \in BOOLEAN :
            /\ IF applied THEN DatastoreUpsert(u_table, batch)
               ELSE UNCHANGED <<u_store, players, adv>>
            /\ u_ops' = Append(u_ops, [first |-> u_i, size |-> Len(batch), ok |-> FALSE,
                                        applied |-> applied])
    /\ u_i' = u_i + u_batch
    /\ UNCHANGED <<u_table, u_batch, u_records, u_upserted, u_pc>>

\* mutant: the function can return before the range is exhausted
UpsertReturn_Early ==
    /\ u_pc = "loop"
    /\ u_pc' = "done"
    /\ UNCHANGED <<u_table, u_batch, u_records, u_i, u_upserted, u_ops, u_store, players, adv>>

\* range exhausted: return upserted
UpsertReturn ==
    /\ u_pc = "loop"
    /\ u_i >= Len(u_records)
    /\ u_pc' = "done"
    /\ UNCHANGED <<u_table, u_batch, u_records, u_i, u_upserted, u_ops, u_store, players, adv>>

UpsertIdle ==
    /\ u_table = "none"
    /\ u_batch = UPSERT_BATCH_SIZE
    /\ u_records = <<>>
    /\ u_i = 0
    /\ u_upserted = 0
    /\ u_ops = <<>>
    /\ u_pc = "idle"
    /\ u_store = [t \in Tables |-> {}]

\* no script running, empty refresh log
JobIdle ==
    /\ ledger = <<>>
    /\ adv = <<>>
    /\ job = "none"
    /\ start_players = <<>>
    /\ start_store = <<>>
    /\ pc = "idle"
    /\ log_id = 0
    /\ exit_code = NULL
    /\ calls = <<>>
    /\ api_requests = {}
    /\ units = <<>>
    /\ unit_i = 0
    /\ all_records = <<>>
    /\ processed = 0
    /\ no_resume = FALSE
    /\ failed = {}
    /\ already_fetched = {}
    /\ index_df = <<>>
    /\ stats_df = <<>>

PctIdle ==
    /\ p_rows = <<>>
    /\ p_all = <<>>
    /\ p_all_done = FALSE
    /\ p_applied = <<>>
    /\ p_app_done = FALSE

REQUEST_DELAY == 4

\* time.time() when the process starts: far more than REQUEST_DELAY after
\* the epoch, the initial value 0.0 of _last_request_time
ProcessStartTime == 10 * REQUEST_DELAY

\* no wrapper call running; rate_limit() not called yet
BuildIdle ==
    /\ b_adv_df = <<>>
    /\ b_base_df = <<>>
    /\ b_tier1_ids = {}
    /\ b_records = <<>>
    /\ b_pc = "idle"

LogIdle ==
    /\ l_text = <<>>
    /\ l_now = NULL
    /\ l_before = <<>>
    /\ l_pc = "idle"

PaceIdle ==
    /\ pace_n = 0
    /\ pace_done = 0
    /\ pace_failed = 0
    /\ pace_events = <<>>
    /\ pace_pc = "idle"

ShotIdle ==
    /\ sh_df = <<>>
    /\ sh_seen = {}
    /\ sh_records = <<>>
    /\ sh_pc = "idle"

CareerIdle ==
    /\ c_df = <<>>
    /\ c_records = <<>>
    /\ c_pc = "idle"

MoreIdle == LogIdle /\ PaceIdle /\ ShotIdle /\ CareerIdle

FetchIdle ==
    /\ MoreIdle
    /\ r_k = 0
    /\ r_d = 0
    /\ r_attempt = 0
    /\ r_events = <<>>
    /\ r_pc = "idle"
    /\ rl_clock = ProcessStartTime
    /\ rl_last = 0
    /\ rl_pc = "idle"
    /\ rl_wake = 0
    /\ rl_returns = <<>>
    /\ BuildIdle

(***************************************************************************)
(* SpecUpsert: one call of an upsert function on N records, any N up to    *)
(* MaxRecords, with the batch size of any of the scripts.                  *)
(***************************************************************************)
InitUpsert ==
    /\ u_table = "records"
    /\ u_batch \in BatchSizes
    /\ u_records \in {[k \in 1..n |-> k] : n \in 0..MaxRecords}
    /\ u_i = 0
    /\ u_upserted = 0
    /\ u_ops = <<>>
    /\ u_pc = "loop"
    /\ u_store = [t \in Tables |-> {}]
    /\ PctIdle
    /\ JobIdle
    /\ FetchIdle
    /\ players = <<>>

NextUpsert ==
    \/ UpsertChunkOk /\ UNCHANGED <<pctVars, fetchVars, ledger, ctlVars, localVars>>
    \/ UpsertChunkRaises /\ UNCHANGED <<pctVars, fetchVars, ledger, ctlVars, localVars>>
    \/ UpsertReturn /\ UNCHANGED <<pctVars, fetchVars, ledger, ctlVars, localVars>>

SpecUpsert == InitUpsert /\ [][NextUpsert]_vars

RECURSIVE FailedRecords(_)
FailedRecords(ops) ==
    IF ops = <<>> THEN 0
    ELSE (IF ops[1].ok THEN 0 ELSE ops[1].size) + FailedRecords(Tail(ops))

\* C1: an upsert of N records with batch size B issues exactly ceil(N/B)
\* chunk operations whether or not chunks raise, and returns N minus the
\* records of the chunks that raised; 125 records with B = 50 are chunked
\* 50, 50, 25, and the count is 75 when only chunk 2 raises.
C1_UpsertChunksAndCount ==
    u_pc = "done" =>
        /\ Len(u_ops) = CeilDiv(Len(u_records), u_batch)
        /\ u_upserted = Len(u_records) - FailedRecords(u_ops)
        /\ (Len(u_records) = 125 /\ u_batch = 50) =>
              /\ [k \in 1..3 |-> u_ops[k].size] = <<50, 50, 25>>
              /\ (u_ops[1].ok /\ ~u_ops[2].ok /\ u_ops[3].ok) => u_upserted = 75

C1_Witness ==
    /\ u_pc = "done"
    /\ Len(u_records) = 125
    /\ u_batch = 50
    /\ Len(u_ops) = 3
    /\ u_ops[1].ok /\ ~u_ops[2].ok /\ u_ops[3].ok
    /\ u_upserted = 75

(***************************************************************************)
(* Percentile ranking                                                      *)
(***************************************************************************)
MIN_PLAYERS_FOR_PERCENTILE == 10
MPG_THRESHOLD == 2000

\* STAT_TO_PCTILE, in the dict's order
StatCols == <<"per", "ts_pct", "usg_pct", "ws", "bpm">>

STAT_TO_PCTILE ==
    [per |-> "per_pctile", ts_pct |-> "ts_pctile", usg_pct |-> "usg_pctile",
     ws |-> "ws_pctile", bpm |-> "bpm_pctile"]

PctileCols == {STAT_TO_PCTILE[c] : c \in Range(StatCols)}

\* Python round(num / den) and round(10 * num / den) / 10 on the floats the
\* scripts compute: round half to even.  Exact for every pool of fewer than
\* 40 values (the float quotient first differs at 23/40).
RoundHalfEven(num, den) ==
    LET q == num \div den
        r == num % den
    IN  IF 2 * r < den THEN q
        ELSE IF 2 * r > den THEN q + 1
        ELSE IF q % 2 = 0 THEN q ELSE q + 1

\* mutant: counts the values at or below
compute_percentile_rank_AtOrBelow(value, all_values) ==
    LET below == Cardinality({k \in 1..Len(all_values) : all_values[k] <= value})
    IN  RoundHalfEven(below * 100, Len(all_values))

\* mutant: counts the values strictly above
compute_percentile_rank_Above(value, all_values) ==
    LET below == Cardinality({k \in 1..Len(all_values) : all_values[k] > value})
    IN  RoundHalfEven(below * 100, Len(all_values))

\* below = sum(1 for v in all_values if v < value)
\* return round((below / len(all_values)) * 100)
compute_percentile_rank(value, all_values) ==
    LET below == Cardinality({k \in 1..Len(all_values) : all_values[k] < value})
    IN  RoundHalfEven(below * 100, Len(all_values))

\* mutant: no row is filtered out
ValidEntries_All(rows, stat_col) == rows

\* valid_entries = [(pid, r[stat_col]) for r in rows if r.get(stat_col) is not None]
ValidEntries(rows, stat_col) ==
    LET NotNull(r) == r[stat_col] # NULL
    IN  SelectSeq(rows, NotNull)

PlayerIds(rows) == {rows[k].nba_player_id : k \in 1..Len(rows)}

\* mutant: no minimum pool size
StatPercentiles_NoMinimum(rows, stat_col) ==
    LET valid_entries == ValidEntries(rows, stat_col)
        all_values == [k \in 1..Len(valid_entries) |-> valid_entries[k][stat_col]]
    IN  [pid \in PlayerIds(rows) |->
            LET ks == {k \in 1..Len(valid_entries) : valid_entries[k].nba_player_id = pid}
            IN  IF ks = {} THEN NULL
                ELSE compute_percentile_rank(
                        valid_entries[CHOOSE k \in ks : \A j \in ks : j <= k][stat_col],
                        all_values)]

\* One iteration of `for stat_col, pctile_col in STAT_TO_PCTILE.items()`:
\* the values results[pid][pctile_col] holds after it.  Every pid starts at
\* None; below the minimum the iteration is skipped; otherwise each valid
\* entry, in order, assigns its rank (the last entry of a pid wins).
StatPercentiles(rows, stat_col) ==
    LET valid_entries == ValidEntries(rows, stat_col)
        all_values == [k \in 1..Len(valid_entries) |-> valid_entries[k][stat_col]]
    IN  [pid \in PlayerIds(rows) |->
            LET ks == {k \in 1..Len(valid_entries) : valid_entries[k].nba_player_id = pid}
            IN  IF Len(valid_entries) < MIN_PLAYERS_FOR_PERCENTILE \/ ks = {} THEN NULL
                ELSE compute_percentile_rank(
                        valid_entries[CHOOSE k \in ks : \A j \in ks : j <= k][stat_col],
                        all_values)]

\* { nba_player_id: { "per_pctile": ..., "ts_pctile": ..., ... } }
compute_all_percentiles(rows) ==
    [pid \in PlayerIds(rows) |->
        [col \in PctileCols |->
            LET stat_col == CHOOSE c \in Range(StatCols) : STAT_TO_PCTILE[c] = col
            IN  StatPercentiles(rows, stat_col)[pid]]]

\* mutant: the values are scanned in the order of the records
Sorted_AsGiven(values) == values

\* sorted(values): insertion into an ascending sequence
RECURSIVE Sorted(_)
Sorted(values) ==
    IF values = <<>> THEN <<>>
    ELSE LET rest == Sorted(Tail(values))
             v == Head(values)
             lower == SelectSeq(rest, LAMBDA x : x < v)
             upper == SelectSeq(rest, LAMBDA x : ~(x < v))
         IN  lower \o <<v>> \o upper

\* for x in values: if x < v: count_below += 1 else: break
RECURSIVE CountBelow(_, _)
CountBelow(values, v) ==
    IF values = <<>> THEN 0
    ELSE IF Head(values) < v THEN 1 + CountBelow(Tail(values), v)
    ELSE 0

\* qualifying = [r for r in records if r.get("_min_pg") is not None
\*               and r["_min_pg"] >= MPG_THRESHOLD and r.get(stat_col) is not None]
Qualifying(records, stat_col) ==
    LET Qualifies(r) ==
            /\ r.min_pg # NULL
            /\ r.min_pg >= MPG_THRESHOLD
            /\ r[stat_col] # NULL
    IN  SelectSeq(records, Qualifies)

\* {nba_player_id: percentile}, in tenths of a percent; a pid not in the
\* returned dict maps to NULL here (apply_percentiles reads it with .get)
compute_percentile_map(records, stat_col) ==
    LET qualifying == Qualifying(records, stat_col)
        values == Sorted([k \in 1..Len(qualifying) |-> qualifying[k][stat_col]])
        n == Len(values)
    IN  [pid \in PlayerIds(records) |->
            LET ks == {k \in 1..n : qualifying[k].nba_player_id = pid}
            IN  IF ks = {} THEN NULL
                ELSE RoundHalfEven(
                        CountBelow(values,
                            qualifying[CHOOSE k \in ks : \A j \in ks : j <= k][stat_col]) * 1000,
                        n)]

\* mutant: the transient field is not popped
apply_percentiles_KeepMinPg(records) ==
    LET ts_map == compute_percentile_map(records, "ts_pct")
        usg_map == compute_percentile_map(records, "usg_pct")
    IN  [k \in 1..Len(records) |->
            LET r == records[k] IN
            [f \in DOMAIN r \cup PctileCols |->
                CASE f = "ts_pctile" -> ts_map[r.nba_player_id]
                  [] f = "usg_pctile" -> usg_map[r.nba_player_id]
                  [] f \in {"per_pctile", "ws_pctile", "bpm_pctile"} -> NULL
                  [] OTHER -> r[f]]]

\* Attaches the five percentile columns to every record and pops _min_pg
\* (min_pg here) from it; every other field of the record is kept.
apply_percentiles(records) ==
    LET ts_map == compute_percentile_map(records, "ts_pct")
        usg_map == compute_percentile_map(records, "usg_pct")
    IN  [k \in 1..Len(records) |->
            LET r == records[k] IN
            [f \in (DOMAIN r \cup PctileCols) \ {"min_pg"} |->
                CASE f = "ts_pctile" -> ts_map[r.nba_player_id]
                  [] f = "usg_pctile" -> usg_map[r.nba_player_id]
                  [] f \in {"per_pctile", "ws_pctile", "bpm_pctile"} -> NULL
                  [] OTHER -> r[f]]]

(***************************************************************************)
(* SpecPct: the percentile functions applied to lists of up to MaxRows     *)
(* rows.  Row k is player k; a plain row carries the values 10*k (per,     *)
(* ts_pct), a descending usg_pct, pairwise tied ws, three-valued bpm and a *)
(* qualifying minutes figure (20.0 or 31.2); up to MaxSpecial rows deviate *)
(* from it: a value tied with the row before, a missing ts_pct or usg_pct, *)
(* missing per/ws/bpm, or minutes below the threshold (19.9) or missing.   *)
(***************************************************************************)
MaxRows == 10
MaxSpecial == 2

PlainRow(k) ==
    [nba_player_id |-> k,
     season |-> CurrentSeason,
     min_pg |-> IF k % 2 = 1 THEN MPG_THRESHOLD ELSE 3120,
     per |-> 10 * k,
     ts_pct |-> 10 * k,
     usg_pct |-> 1000 - 10 * k,
     ws |-> 10 * ((k + 1) \div 2),
     bpm |-> 10 * (k % 3)]

RowKinds == {"plain", "tie", "null", "no_bbref", "bench"}

MakeRow(k, kind) ==
    CASE kind = "plain"    -> PlainRow(k)
      [] kind = "tie"      -> [PlainRow(k) EXCEPT !.ts_pct = 10 * (k - 1),
                                                  !.usg_pct = 1000 - 10 * (k - 1)]
      [] kind = "null"     -> IF k % 2 = 1 THEN [PlainRow(k) EXCEPT !.ts_pct = NULL]
                              ELSE [PlainRow(k) EXCEPT !.usg_pct = NULL]
      [] kind = "no_bbref" -> [PlainRow(k) EXCEPT !.per = NULL, !.ws = NULL, !.bpm = NULL]
      [] kind = "bench"    -> IF k % 2 = 1 THEN [PlainRow(k) EXCEPT !.min_pg = 1990]
                              ELSE [PlainRow(k) EXCEPT !.min_pg = NULL]

SpecialCount(rows) == Cardinality({k \in 1..Len(rows) : rows[k] # PlainRow(k)})

AddRow(kind) ==
    /\ ~p_all_done /\ ~p_app_done
    /\ Len(p_rows) < MaxRows
    /\ LET row == MakeRow(Len(p_rows) + 1, kind) IN
         /\ SpecialCount(Append(p_rows, row)) <= MaxSpecial
         /\ p_rows' = Append(p_rows, row)
    /\ UNCHANGED <<p_all, p_all_done, p_applied, p_app_done>>

\* calculate_percentiles.main step 2: percentiles = compute_all_percentiles(rows)
ComputeAll ==
    /\ ~p_all_done
    /\ p_all' = compute_all_percentiles(p_rows)
    /\ p_all_done' = TRUE
    /\ UNCHANGED <<p_rows, p_applied, p_app_done>>

\* fetch_advanced_stats.main: records = apply_percentiles(records)
ApplyPercentiles ==
    /\ ~p_app_done
    /\ p_applied' = apply_percentiles(p_rows)
    /\ p_app_done' = TRUE
    /\ UNCHANGED <<p_rows, p_all, p_all_done>>

InitPct == UpsertIdle /\ PctIdle /\ JobIdle /\ FetchIdle /\ players = <<>>

NextPct ==
    \/ \E kind \in RowKinds : AddRow(kind) /\ UNCHANGED <<upsertVars, jobVars, fetchVars>>
    \/ ComputeAll /\ UNCHANGED <<upsertVars, jobVars, fetchVars>>
    \/ ApplyPercentiles /\ UNCHANGED <<upsertVars, jobVars, fetchVars>>

SpecPct == InitPct /\ [][NextPct]_vars

NonNullCount(rows, stat_col) == Cardinality({k \in 1..Len(rows) : rows[k][stat_col] # NULL})

\* C3: when fewer than 10 rows have a non-null value of a statistic,
\* compute_all_percentiles returns (for every player of the rows, all five
\* columns present) null in that statistic's percentile column.
C3_BelowMinimumAllNull ==
    p_all_done =>
        /\ DOMAIN p_all = PlayerIds(p_rows)
        /\ \A c \in Range(StatCols) :
              NonNullCount(p_rows, c) < 10 =>
                  \A pid \in DOMAIN p_all : p_all[pid][STAT_TO_PCTILE[c]] = NULL

C3_Witness ==
    /\ p_all_done
    /\ NonNullCount(p_rows, "per") = 9
    /\ NonNullCount(p_rows, "ts_pct") = 10
    /\ \A pid \in DOMAIN p_all : p_all[pid]["per_pctile"] = NULL
    /\ \E pid \in DOMAIN p_all : p_all[pid]["ts_pctile"] # NULL

GatedCols == {"ts_pct", "usg_pct"}

\* the record apply_percentiles returned for player pid
AppliedOf(pid) == p_applied[CHOOSE k \in 1..Len(p_applied) : p_applied[k].nba_player_id = pid]

\* C4 (as claimed): when fewer than 10 records qualify for a statistic
\* (minutes >= 20 and the statistic non-null), apply_percentiles leaves
\* ts_pctile / usg_pctile null on every record.
C4_GatedBelowMinimumAllNull ==
    p_app_done =>
        \A c \in GatedCols :
            Len(Qualifying(p_rows, c)) < 10 =>
                \A k \in 1..Len(p_applied) : p_applied[k][STAT_TO_PCTILE[c]] = NULL

\* C6: in a pool of at least 10 qualifying values every qualifying entity's
\* percentile lies in [0, 100] (0..1000 tenths for compute_percentile_map),
\* and a smaller value never gets a larger percentile than a larger value.
C6_PercentileRangeMonotone ==
    /\ p_all_done =>
          \A c \in Range(StatCols) :
              NonNullCount(p_rows, c) >= 10 =>
                  \A j, k \in 1..Len(p_rows) :
                      (p_rows[j][c] # NULL /\ p_rows[k][c] # NULL) =>
                          LET pj == p_all[p_rows[j].nba_player_id][STAT_TO_PCTILE[c]]
                              pk == p_all[p_rows[k].nba_player_id][STAT_TO_PCTILE[c]]
                          IN  /\ pj \in 0..100
                              /\ p_rows[j][c] < p_rows[k][c] => pj <= pk
    /\ p_app_done =>
          \A c \in GatedCols :
              LET q == Qualifying(p_rows, c) IN
              Len(q) >= 10 =>
                  \A j, k \in 1..Len(q) :
                      LET pj == AppliedOf(q[j].nba_player_id)[STAT_TO_PCTILE[c]]
                          pk == AppliedOf(q[k].nba_player_id)[STAT_TO_PCTILE[c]]
                      IN  /\ pj \in 0..1000
                          /\ q[j][c] < q[k][c] => pj <= pk

C6_Witness ==
    /\ p_all_done /\ p_app_done
    /\ NonNullCount(p_rows, "ts_pct") >= 10
    /\ Len(Qualifying(p_rows, "ts_pct")) >= 10
    /\ \E j, k \in 1..Len(p_rows) :
          /\ p_rows[j].ts_pct # NULL /\ p_rows[j].ts_pct < p_rows[k].ts_pct
          /\ p_all[p_rows[j].nba_player_id]["ts_pctile"] < p_all[p_rows[k].nba_player_id]["ts_pctile"]
          /\ p_applied[j]["ts_pctile"] # NULL
          /\ p_applied[j]["ts_pctile"] < p_applied[k]["ts_pctile"]
    /\ \E j, k \in 1..Len(p_rows) :
          /\ j # k /\ p_rows[j].ts_pct # NULL /\ p_rows[j].ts_pct = p_rows[k].ts_pct

IsMinimum(rows, c, k) ==
    /\ rows[k][c] # NULL
    /\ \A j \in 1..Len(rows) : rows[j][c] # NULL => rows[k][c] <= rows[j][c]

IsStrictMaximum(rows, c, k) ==
    /\ rows[k][c] # NULL
    /\ \A j \in 1..Len(rows) : (j # k /\ rows[j][c] # NULL) => rows[j][c] < rows[k][c]

\* p is the integer nearest to num / den
Nearest(p, num, den) ==
    /\ 2 * (p * den - num) <= den
    /\ 2 * (num - p * den) <= den

TenToHundred(rows, c) ==
    /\ Len(rows) = 10
    /\ \A k \in 1..10 : rows[k][c] = 10 * k

\* C7: in a pool of n >= 10 values compute_percentile_rank gives every
\* entity the nearest integer to 100 * (values strictly below) / n: the
\* minimum gets 0 and a strict maximum gets round(100 * (n - 1) / n); in the
\* pool {10, 20, ..., 100} the value 10 gets 0 and the value 100 gets 90.
C7_MinimumAndStrictMaximum ==
    p_all_done =>
        \A c \in Range(StatCols) :
            LET n == NonNullCount(p_rows, c) IN
            n >= 10 =>
                /\ \A k \in 1..Len(p_rows) :
                      LET pk == p_all[p_rows[k].nba_player_id][STAT_TO_PCTILE[c]]
                          below == Cardinality({j \in 1..Len(p_rows) :
                                      p_rows[j][c] # NULL /\ p_rows[j][c] < p_rows[k][c]})
                      IN  /\ p_rows[k][c] # NULL => Nearest(pk, 100 * below, n)
                          /\ IsMinimum(p_rows, c, k) => pk = 0
                          /\ IsStrictMaximum(p_rows, c, k) => Nearest(pk, 100 * (n - 1), n)
                /\ TenToHundred(p_rows, c) =>
                      /\ p_all[p_rows[1].nba_player_id][STAT_TO_PCTILE[c]] = 0
                      /\ p_all[p_rows[10].nba_player_id][STAT_TO_PCTILE[c]] = 90

C7_Witness ==
    /\ p_all_done
    /\ TenToHundred(p_rows, "ts_pct")
    /\ IsMinimum(p_rows, "ts_pct", 1)
    /\ IsStrictMaximum(p_rows, "ts_pct", 10)
    /\ p_all[p_rows[1].nba_player_id]["ts_pctile"] = 0
    /\ p_all[p_rows[10].nba_player_id]["ts_pctile"] = 90

(***************************************************************************)
(* The scripts' main(): log_refresh_start, the try body, and the           *)
(* except Exception handler (log_refresh_failed, sys.exit(1)).             *)
(***************************************************************************)
Jobs == {"fetch_players", "fetch_season_stats", "fetch_advanced_stats",
         "fetch_game_logs", "fetch_shot_charts", "calculate_percentiles"}

\* the jobs whose body starts with get_tier1_players / get_tier1_player_ids
Tier1Jobs == {"fetch_season_stats", "fetch_advanced_stats", "fetch_game_logs",
              "fetch_shot_charts"}

\* one upstream request per player, all records upserted after the loop
PlayerLoopJobs == {"fetch_season_stats", "fetch_game_logs"}

TableOf(j) ==
    CASE j = "fetch_players" -> "players"
      [] j = "fetch_season_stats" -> "player_season_stats"
      [] j = "fetch_advanced_stats" -> "player_advanced_stats"
      [] j = "fetch_game_logs" -> "game_logs"
      [] j = "fetch_shot_charts" -> "shot_chart_data"

EndpointOf(j) ==
    CASE j = "fetch_season_stats" -> "PlayerCareerStats"
      [] j = "fetch_game_logs" -> "PlayerGameLog"
      [] j = "fetch_shot_charts" -> "ShotChartDetail"

RECURSIVE SetToSeq(_)
SetToSeq(S) ==
    IF S = {} THEN <<>>
    ELSE LET m == CHOOSE x \in S : \A y \in S : x <= y
         IN  <<m>> \o SetToSeq(S \ {m})

\* .eq("is_active", True).eq("tier", 1)
ActiveTier1 ==
    {pid \in DOMAIN players :
        players[pid].exists /\ players[pid].is_active /\ players[pid].tier = 1}

uLoop == <<u_table, u_batch, u_records, u_i, u_upserted, u_ops, u_pc>>

\* `python scripts/<job>.py [--no-resume]`: a new process, every local fresh
ProcessStart(j) ==
    /\ pc \in {"idle", "exited"}
    /\ job' = j
    /\ start_players' = players
    /\ start_store' = u_store
    /\ pc' = "log_start"
    /\ no_resume' \in (IF j = "fetch_shot_charts" THEN BOOLEAN ELSE {FALSE})
    /\ failed' = {}
    /\ already_fetched' = {}
    /\ log_id' = 0
    /\ exit_code' = NULL
    /\ calls' = <<>>
    /\ api_requests' = {}
    /\ units' = <<>>
    /\ unit_i' = 0
    /\ all_records' = <<>>
    /\ processed' = 0
    /\ index_df' = <<>>
    /\ stats_df' = <<>>
    /\ u_table' = "none"
    /\ u_batch' = UPSERT_BATCH_SIZE
    /\ u_records' = <<>>
    /\ u_i' = 0
    /\ u_upserted' = 0
    /\ u_ops' = <<>>
    /\ u_pc' = "idle"
    /\ UNCHANGED <<players, ledger, adv, u_store>>

\* log_id = log_refresh_start(JOB_NAME) returns the new row's id
LogRefreshStartOk ==
    /\ pc = "log_start"
    /\ ledger' = Append(ledger, [job_name |-> job, status |-> "started",
                                 players_updated |-> NULL])
    /\ log_id' = Len(ledger) + 1
    /\ calls' = Append(calls, "start")
    /\ pc' = "body"
    /\ UNCHANGED <<players, adv, job, start_players, start_store, exit_code, api_requests, localVars, upsertVars>>

\* log_refresh_start raises (outside the try): the traceback ends the
\* process; the insert may or may not have reached the datastore
LogRefreshStartRaises ==
    /\ pc = "log_start"
    /\ \E applied \in BOOLEAN :
          ledger' = IF applied
                    THEN Append(ledger, [job_name |-> job, status |-> "started",
                                         players_updated |-> NULL])
                    ELSE ledger
    /\ calls' = Append(calls, "start")
    /\ pc' = "exited"
    /\ exit_code' = 1
    /\ UNCHANGED <<players, adv, job, start_players, start_store, log_id, api_requests, localVars, upsertVars>>

\* the players_updated argument of log_refresh_complete
CompleteCount ==
    CASE job = "fetch_players" -> u_upserted
      [] job = "fetch_advanced_stats" ->
            Cardinality({all_records[k].nba_player_id : k \in 1..Len(all_records)})
      [] OTHER -> processed

\* log_refresh_complete(log_id, JOB_NAME, n) returns; main returns
LogRefreshCompleteOk ==
    /\ pc = "complete"
    /\ ledger' = [ledger EXCEPT ![log_id] =
                    [@ EXCEPT !.status = "completed", !.players_updated = CompleteCount]]
    /\ calls' = Append(calls, "complete")
    /\ pc' = "exited"
    /\ exit_code' = 0
    /\ UNCHANGED <<players, adv, job, start_players, start_store, log_id, api_requests, localVars, upsertVars>>

\* log_refresh_complete raises inside the try (the update may or may not
\* have reached the datastore): control goes to the except handler
LogRefreshCompleteRaises ==
    /\ pc = "complete"
    /\ \E applied \in BOOLEAN :
          ledger' = IF applied
                    THEN [ledger EXCEPT ![log_id] =
                            [@ EXCEPT !.status = "completed",
                                      !.players_updated = CompleteCount]]
                    ELSE ledger
    /\ calls' = Append(calls, "complete")
    /\ pc' = "handler"
    /\ UNCHANGED <<players, adv, job, start_players, start_store, log_id, exit_code, api_requests, localVars, upsertVars>>

\* mutant: the handler does not exit and main goes on to log_refresh_complete
HandlerLogFailedOk_NoExit ==
    /\ pc = "handler"
    /\ ledger' = [ledger EXCEPT ![log_id] = [@ EXCEPT !.status = "failed"]]
    /\ calls' = Append(calls, "failed")
    /\ pc' = "complete"
    /\ UNCHANGED <<players, adv, job, start_players, start_store, log_id, exit_code, api_requests, localVars, upsertVars>>

\* except Exception: log_refresh_failed(log_id, ...) returns; sys.exit(1)
HandlerLogFailedOk ==
    /\ pc = "handler"
    /\ ledger' = [ledger EXCEPT ![log_id] = [@ EXCEPT !.status = "failed"]]
    /\ calls' = Append(calls, "failed")
    /\ pc' = "exited"
    /\ exit_code' = 1
    /\ UNCHANGED <<players, adv, job, start_players, start_store, log_id, api_requests, localVars, upsertVars>>

\* log_refresh_failed raises inside the handler (the update may or may not
\* have reached the datastore): the exception leaves main, sys.exit(1) is
\* not reached and the interpreter exits with status 1
HandlerLogFailedRaises ==
    /\ pc = "handler"
    /\ \E applied \in BOOLEAN :
          ledger' = IF applied
                    THEN [ledger EXCEPT ![log_id] = [@ EXCEPT !.status = "failed"]]
                    ELSE ledger
    /\ calls' = Append(calls, "failed")
    /\ pc' = "exited"
    /\ exit_code' = 1
    /\ UNCHANGED <<players, adv, job, start_players, start_store, log_id, api_requests, localVars, upsertVars>>

(***************************************************************************)
(* fetch_players.py                                                        *)
(***************************************************************************)
MPG_TIER1_THRESHOLD == 2000

\* mutant: strictly more than the threshold
TierOf_Above(mpg) == IF mpg > MPG_TIER1_THRESHOLD THEN 1 ELSE 2

\* tier = 1 if mpg >= MPG_TIER1_THRESHOLD else 2
TierOf(mpg) == IF mpg >= MPG_TIER1_THRESHOLD THEN 1 ELSE 2

\* mpg_lookup[int(row["PLAYER_ID"])] = float(row["MIN"]) if pd.notna(row["MIN"])
\* else 0.0, row after row: the last row of a player wins
mpg_lookup(league_stats_df) ==
    [pid \in {league_stats_df[k].PLAYER_ID : k \in 1..Len(league_stats_df)} |->
        LET last == CHOOSE k \in 1..Len(league_stats_df) :
                        /\ league_stats_df[k].PLAYER_ID = pid
                        /\ \A j \in (k + 1)..Len(league_stats_df) :
                              league_stats_df[j].PLAYER_ID # pid
        IN  IF league_stats_df[last].MIN = NULL THEN 0 ELSE league_stats_df[last].MIN]

\* mpg_lookup.get(player_id, 0.0)
MpgOf(lookup, pid) == IF pid \in DOMAIN lookup THEN lookup[pid] ELSE 0

\* One record per PlayerIndex row that is the first row of its PERSON_ID
\* (seen_ids) and has a non-empty full_name; is_active is always True.
build_player_records(player_index_df, league_stats_df) ==
    LET lookup == mpg_lookup(league_stats_df)
        kept == {k \in 1..Len(player_index_df) :
                    /\ player_index_df[k].named
                    /\ \A j \in 1..(k - 1) :
                          player_index_df[j].PERSON_ID # player_index_df[k].PERSON_ID}
        order == SetToSeq(kept)
    IN  [i \in 1..Len(order) |->
            LET pid == player_index_df[order[i]].PERSON_ID
            IN  [nba_player_id |-> pid, is_active |-> TRUE,
                 tier |-> TierOf(MpgOf(lookup, pid))]]

\* player_index_df = fetch_player_index(season) returns
FetchPlayerIndexReturns(df) ==
    /\ pc = "body" /\ job = "fetch_players"
    /\ api_requests' = api_requests \cup {[ep |-> "PlayerIndex", arg |-> CurrentSeason]}
    /\ index_df' = df
    /\ pc' = IF df = <<>> THEN "handler" ELSE "league"
    /\ calls' = IF df = <<>> THEN Append(calls, "ValueError") ELSE calls
    /\ UNCHANGED <<players, ledger, adv, job, start_players, start_store, log_id, exit_code,
                   units, unit_i, all_records, processed, no_resume, already_fetched, failed, stats_df, upsertVars>>

\* fetch_player_index raises after its retries
FetchPlayerIndexRaises ==
    /\ pc = "body" /\ job = "fetch_players"
    /\ api_requests' = api_requests \cup {[ep |-> "PlayerIndex", arg |-> CurrentSeason]}
    /\ pc' = "handler"
    /\ UNCHANGED <<players, ledger, adv, job, start_players, start_store, log_id, exit_code, calls,
                   localVars, upsertVars>>

\* league_stats_df = fetch_league_stats(season) returns; records are built;
\* no records: ValueError; otherwise upsert_players(records) is entered
FetchLeagueStatsReturns(df) ==
    /\ pc = "league"
    /\ api_requests' = api_requests \cup
                          {[ep |-> "LeagueDashPlayerStats", arg |-> CurrentSeason]}
    /\ stats_df' = df
    /\ LET records == build_player_records(index_df, df) IN
         /\ all_records' = records
         /\ IF records = <<>>
            THEN /\ pc' = "handler"
                 /\ calls' = Append(calls, "ValueError")
                 /\ UNCHANGED uLoop
            ELSE /\ pc' = "upsert"
                 /\ UpsertEnter("players", UPSERT_BATCH_SIZE, records)
                 /\ UNCHANGED calls
    /\ UNCHANGED <<players, ledger, adv, job, start_players, start_store, log_id, exit_code,
                   units, unit_i, processed, no_resume, already_fetched, failed, index_df, u_store>>

\* fetch_league_stats raises after its retries
FetchLeagueStatsRaises ==
    /\ pc = "league"
    /\ api_requests' = api_requests \cup
                          {[ep |-> "LeagueDashPlayerStats", arg |-> CurrentSeason]}
    /\ pc' = "handler"
    /\ UNCHANGED <<players, ledger, adv, job, start_players, start_store, log_id, exit_code, calls,
                   localVars, upsertVars>>

\* the upsert function has returned to main
AfterUpsert ==
    /\ pc = "upsert" /\ u_pc = "done"
    /\ pc' = CASE job = "fetch_players" -> "inactive"
               [] job = "fetch_shot_charts" -> "loop"
               [] OTHER -> "complete"
    /\ unit_i' = IF job = "fetch_shot_charts" THEN unit_i + 1 ELSE unit_i
    /\ processed' = IF job = "fetch_shot_charts" THEN processed + 1 ELSE processed
    /\ UNCHANGED <<players, ledger, adv, job, start_players, start_store, log_id, exit_code, calls,
                   api_requests, units, all_records, no_resume, already_fetched, failed, index_df, stats_df,
                   upsertVars>>

\* mutant: every active player of the datastore is deactivated
MarkInactive_All(done, raised) ==
    /\ pc = "inactive"
    /\ LET db_active_ids == {pid \in DOMAIN players :
                                players[pid].exists /\ players[pid].is_active}
           to_deactivate == db_active_ids
       IN  /\ done \subseteq to_deactivate
           /\ ~raised => done = to_deactivate
           /\ players' = [pid \in DOMAIN players |->
                            IF pid \in done
                            THEN [players[pid] EXCEPT !.is_active = FALSE]
                            ELSE players[pid]]
    /\ calls' = IF raised THEN Append(calls, "mark_inactive_warning") ELSE calls
    /\ pc' = "complete"
    /\ UNCHANGED <<ledger, adv, job, start_players, start_store, log_id, exit_code,
                   api_requests, localVars, upsertVars>>

\* mark_inactive_players(active_ids): the players of to_deactivate are
\* updated one by one in the set's order.  An exception (in the select or
\* in any update) is swallowed with a warning: the players updated by then
\* are any subset of to_deactivate.  Without an exception all are updated.
MarkInactive(done, raised) ==
    /\ pc = "inactive"
    /\ LET active_ids == {all_records[k].nba_player_id : k \in 1..Len(all_records)}
           db_active_ids == {pid \in DOMAIN players :
                                players[pid].exists /\ players[pid].is_active}
           to_deactivate == db_active_ids \ active_ids
       IN  /\ done \subseteq to_deactivate
           /\ ~raised => done = to_deactivate
           /\ players' = [pid \in DOMAIN players |->
                            IF pid \in done
                            THEN [players[pid] EXCEPT !.is_active = FALSE]
                            ELSE players[pid]]
    /\ calls' = IF raised THEN Append(calls, "mark_inactive_warning") ELSE calls
    /\ pc' = "complete"
    /\ UNCHANGED <<ledger, adv, job, start_players, start_store, log_id, exit_code,
                   api_requests, localVars, upsertVars>>

(***************************************************************************)
(* The Tier-1 jobs: fetch_season_stats, fetch_game_logs,                   *)
(* fetch_advanced_stats, fetch_shot_charts                                 *)
(***************************************************************************)
MaxUnitRecords == 1

\* players = get_tier1_players() returns; none: ValueError
GetTier1Returns ==
    /\ pc = "body" /\ job \in Tier1Jobs
    /\ IF ActiveTier1 = {}
       THEN /\ pc' = "handler"
            /\ calls' = Append(calls, "ValueError")
            /\ UNCHANGED units
       ELSE /\ pc' = IF job = "fetch_shot_charts" THEN "resume" ELSE "loop"
            /\ units' = IF job = "fetch_advanced_stats"
                        THEN [k \in 1..NUM_SEASONS |-> k]
                        ELSE SetToSeq(ActiveTier1)
            /\ UNCHANGED calls
    /\ UNCHANGED <<players, ledger, adv, job, start_players, start_store, log_id, exit_code,
                   api_requests, unit_i, all_records, processed, no_resume, already_fetched, failed, index_df,
                   stats_df, upsertVars>>

\* the datastore query of get_tier1_players raises
GetTier1Raises ==
    /\ pc = "body" /\ job \in Tier1Jobs \cup {"calculate_percentiles"}
    /\ pc' = "handler"
    /\ UNCHANGED <<players, ledger, adv, job, start_players, start_store, log_id, exit_code, calls,
                   api_requests, localVars, upsertVars>>

\* the records extracted from one player's response
UnitRecords(pid, n) == [k \in 1..n |-> [nba_player_id |-> pid, k |-> k]]

\* fetch_career_stats / fetch_player_game_log returns for the next player
\* and n records are extracted from it
PlayerFetchReturns(n) ==
    /\ pc = "loop" /\ job \in PlayerLoopJobs
    /\ unit_i < Len(units)
    /\ LET pid == units[unit_i + 1] IN
         /\ api_requests' = api_requests \cup {[ep |-> EndpointOf(job), arg |-> pid]}
         /\ all_records' = all_records \o UnitRecords(pid, n)
    /\ processed' = IF job = "fetch_game_logs" /\ n = 0 THEN processed ELSE processed + 1
    /\ unit_i' = unit_i + 1
    /\ UNCHANGED <<players, ledger, adv, job, start_players, start_store, pc, log_id, exit_code,
                   calls, units, no_resume, already_fetched, failed, index_df, stats_df, upsertVars>>

\* mutant: the exception of one unit leaves the loop
PlayerFetchRaises_Abort ==
    /\ pc = "loop" /\ job \in PlayerLoopJobs \cup {"fetch_shot_charts"}
    /\ unit_i < Len(units)
    /\ api_requests' = api_requests \cup
                          {[ep |-> EndpointOf(job), arg |-> units[unit_i + 1]]}
    /\ failed' = failed \cup {units[unit_i + 1]}
    /\ pc' = "handler"
    /\ UNCHANGED <<players, ledger, adv, job, start_players, start_store, log_id, exit_code,
                   calls, units, unit_i, all_records, processed, no_resume, already_fetched, index_df,
                   stats_df, upsertVars>>

\* the fetch (after its retries) or the extraction raises: logged, `continue`
PlayerFetchRaises ==
    /\ pc = "loop" /\ job \in PlayerLoopJobs \cup {"fetch_shot_charts"}
    /\ unit_i < Len(units)
    /\ api_requests' = api_requests \cup
                          {[ep |-> EndpointOf(job), arg |-> units[unit_i + 1]]}
    /\ failed' = failed \cup {units[unit_i + 1]}
    /\ unit_i' = unit_i + 1
    /\ UNCHANGED <<players, ledger, adv, job, start_players, start_store, pc, log_id, exit_code,
                   calls, units, all_records, processed, no_resume, already_fetched, index_df, stats_df,
                   upsertVars>>

\* after the loop: `if all_records: upsert_...(all_records)`, then step 4
LoopDone ==
    /\ pc = "loop" /\ job \in PlayerLoopJobs \cup {"fetch_advanced_stats"}
    /\ unit_i = Len(units)
    /\ IF all_records = <<>>
       THEN /\ pc' = "complete"
            /\ UNCHANGED uLoop
       ELSE /\ pc' = "upsert"
            /\ UpsertEnter(TableOf(job), UPSERT_BATCH_SIZE, all_records)
    /\ UNCHANGED <<players, ledger, adv, job, start_players, start_store, log_id, exit_code, calls,
                   api_requests, localVars, u_store>>

\* ---- fetch_advanced_stats

\* the LeagueDashPlayerStats (Advanced) rows of a season for the players P
UpstreamAdvFrame(P, season) ==
    LET order == SetToSeq(P) IN
    [k \in 1..Len(order) |->
        [PLAYER_ID |-> order[k],
         MIN |-> IF order[k] % 5 = 1 THEN 1990 ELSE MPG_THRESHOLD + 10 * order[k],
         TS_PCT |-> 500 + 10 * order[k] + season,
         USG_PCT |-> 300 - 10 * order[k]]]

\* the LeagueDashPlayerStats (Base) rows of a season for the players P; the
\* players with an even id have no Base row
UpstreamBaseFrame(P, season) ==
    LET order == SetToSeq({pid \in P : pid % 2 = 1}) IN
    [k \in 1..Len(order) |->
        [PLAYER_ID |-> order[k], FG3A |-> 30 + season, FGA |-> 80 + order[k],
         FTA |-> 20]]

\* float NaN: the cell pandas holds for a missing value
NAN == -2

\* the outcome of a float division by zero: ZeroDivisionError is raised
ZERO_DIVISION == -3

\* safe_float(value, decimals): None for NaN and None, else the number
safe_float(value) == IF value = NAN \/ value = NULL THEN NULL ELSE value

\* `value or 0`: None and 0 are falsy, NaN is not
OrZero(value) == IF value = NULL THEN 0 ELSE value

\* float(a) / fga, in thousandths
FloatDiv(a, b) ==
    IF b = 0 THEN ZERO_DIVISION
    ELSE IF a = NAN \/ b = NAN THEN NAN
    ELSE RoundHalfEven(1000 * a, b)

\* mutant: the ratios are computed for every row
FgaPositive_Always(fga) == TRUE

\* if fga > 0  (False for NaN)
FgaPositive(fga) == fga # NAN /\ fga > 0

\* the row of adv_df joined with the Base columns b
Joined(row, b) ==
    [PLAYER_ID |-> row.PLAYER_ID, MIN |-> row.MIN, TS_PCT |-> row.TS_PCT,
     USG_PCT |-> row.USG_PCT, FG3A |-> b.FG3A, FGA |-> b.FGA, FTA |-> b.FTA]

\* mutant: inner join
RECURSIVE LeftMerge_Inner(_, _)
LeftMerge_Inner(adv_df, base_cols) ==
    IF adv_df = <<>> THEN <<>>
    ELSE LET row == Head(adv_df)
             matches == SelectSeq(base_cols, LAMBDA b : b.PLAYER_ID = row.PLAYER_ID)
         IN  [k \in 1..Len(matches) |-> Joined(row, matches[k])]
             \o LeftMerge_Inner(Tail(adv_df), base_cols)

\* adv_df.merge(base_cols, on="PLAYER_ID", how="left"): every row of adv_df
\* in order, once per Base row of the player, or once with NaN cells when
\* the player has no Base row
RECURSIVE LeftMerge(_, _)
LeftMerge(adv_df, base_cols) ==
    IF adv_df = <<>> THEN <<>>
    ELSE LET row == Head(adv_df)
             matches == SelectSeq(base_cols, LAMBDA b : b.PLAYER_ID = row.PLAYER_ID)
         IN  (IF matches = <<>>
              THEN <<Joined(row, [FG3A |-> NAN, FGA |-> NAN, FTA |-> NAN])>>
              ELSE [k \in 1..Len(matches) |-> Joined(row, matches[k])])
             \o LeftMerge(Tail(adv_df), base_cols)

\* build_season_records: [] for an empty adv_df; else the left merge
\* filtered by merged["PLAYER_ID"].isin(tier1_ids), one record per row; the
\* Basketball Reference statistics are None.  three_par and ftr are in
\* thousandths; a field equal to ZERO_DIVISION stands for the exception.
build_season_records(adv_df, base_df, tier1_ids, season) ==
    LET IsTier1(row) == row.PLAYER_ID \in tier1_ids
        merged == SelectSeq(LeftMerge(adv_df, base_df), IsTier1)
    IN  [k \in 1..Len(merged) |->
            LET row == merged[k]
                fga == OrZero(row.FGA)
            IN  [nba_player_id |-> row.PLAYER_ID, season |-> season,
                 min_pg |-> safe_float(row.MIN),
                 ts_pct |-> safe_float(row.TS_PCT), usg_pct |-> safe_float(row.USG_PCT),
                 three_par |-> IF FgaPositive(fga)
                               THEN safe_float(FloatDiv(OrZero(row.FG3A), fga))
                               ELSE NULL,
                 ftr |-> IF FgaPositive(fga)
                         THEN safe_float(FloatDiv(OrZero(row.FTA), fga))
                         ELSE NULL,
                 per |-> NULL, ws |-> NULL, bpm |-> NULL]]

\* (history) the rule behind each percentile a record carries
WithRule(r, tag) ==
    [f \in DOMAIN r \cup {"rule"} |->
        IF f = "rule"
        THEN [c \in PctileCols |-> IF r[c] = NULL THEN "none" ELSE tag]
        ELSE r[f]]

\* both bulk fetches of the next season return; an empty Advanced frame is
\* skipped, otherwise the season's records get their inline percentiles
SeasonReturns(adv_df) ==
    /\ pc = "loop" /\ job = "fetch_advanced_stats"
    /\ unit_i < Len(units)
    /\ LET season == units[unit_i + 1]
           base_df == UpstreamBaseFrame(DOMAIN players, season)
           records == apply_percentiles(
                         build_season_records(adv_df, base_df, ActiveTier1, season))
       IN  /\ api_requests' = api_requests \cup
                                 {[ep |-> "LeagueDashPlayerStats.Advanced", arg |-> season],
                                  [ep |-> "LeagueDashPlayerStats.Base", arg |-> season]}
           /\ all_records' = IF adv_df = <<>> THEN all_records
                             ELSE all_records \o
                                  [k \in 1..Len(records) |-> WithRule(records[k], "gated")]
    /\ unit_i' = unit_i + 1
    /\ UNCHANGED <<players, ledger, adv, job, start_players, start_store, pc, log_id, exit_code,
                   calls, units, processed, no_resume, already_fetched, failed, index_df, stats_df, upsertVars>>

\* one of the two fetches, or the building of the records, raises
SeasonRaises ==
    /\ pc = "loop" /\ job = "fetch_advanced_stats"
    /\ unit_i < Len(units)
    /\ LET season == units[unit_i + 1] IN
         \E base_requested \in BOOLEAN :
            api_requests' = api_requests \cup
                {[ep |-> "LeagueDashPlayerStats.Advanced", arg |-> season]} \cup
                (IF base_requested
                 THEN {[ep |-> "LeagueDashPlayerStats.Base", arg |-> season]} ELSE {})
    /\ failed' = failed \cup {units[unit_i + 1]}
    /\ unit_i' = unit_i + 1
    /\ UNCHANGED <<players, ledger, adv, job, start_players, start_store, pc, log_id, exit_code,
                   calls, units, all_records, processed, no_resume, already_fetched, index_df, stats_df,
                   upsertVars>>

\* ---- fetch_shot_charts

\* mutant: --no-resume is ignored
ResumeCheck_IgnoreFlag(query_ok) ==
    /\ pc = "resume"
    /\ LET fetched ==
              IF ~query_ok THEN {}
              ELSE {r.nba_player_id : r \in u_store["shot_chart_data"]}
           IsLeft(pid) == pid \notin fetched
           players_to_fetch == SelectSeq(units, IsLeft)
       IN  /\ already_fetched' = fetched
           /\ units' = players_to_fetch
           /\ pc' = IF players_to_fetch = <<>> THEN "complete" ELSE "loop"
    /\ UNCHANGED <<players, ledger, adv, job, start_players, start_store, log_id, exit_code, calls,
                   api_requests, unit_i, all_records, processed, no_resume, failed, index_df,
                   stats_df, upsertVars>>

\* step 2: already_fetched is empty with --no-resume or when the query of
\* get_already_fetched_player_ids raises; nothing left to fetch: complete(0)
ResumeCheck(query_ok) ==
    /\ pc = "resume"
    /\ LET fetched ==
              IF no_resume \/ ~query_ok THEN {}
              ELSE {r.nba_player_id : r \in u_store["shot_chart_data"]}
           IsLeft(pid) == pid \notin fetched
           players_to_fetch == SelectSeq(units, IsLeft)
       IN  /\ already_fetched' = fetched
           /\ units' = players_to_fetch
           /\ pc' = IF players_to_fetch = <<>> THEN "complete" ELSE "loop"
    /\ UNCHANGED <<players, ledger, adv, job, start_players, start_store, log_id, exit_code, calls,
                   api_requests, unit_i, all_records, processed, no_resume, failed, index_df,
                   stats_df, upsertVars>>

\* fetch_player_shots returns n rows of which m survive transform_shot_rows;
\* with records, upsert_shot_records(records) is entered
ShotFetchReturns(n, m) ==
    /\ pc = "loop" /\ job = "fetch_shot_charts"
    /\ unit_i < Len(units)
    /\ m <= n
    /\ LET pid == units[unit_i + 1] IN
         /\ api_requests' = api_requests \cup {[ep |-> EndpointOf(job), arg |-> pid]}
         /\ all_records' = UnitRecords(pid, m)
         /\ IF m = 0
            THEN /\ processed' = processed + 1
                 /\ unit_i' = unit_i + 1
                 /\ UNCHANGED <<pc, uLoop>>
            ELSE /\ pc' = "upsert"
                 /\ UpsertEnter("shot_chart_data", SHOT_UPSERT_BATCH_SIZE,
                                UnitRecords(pid, m))
                 /\ UNCHANGED <<processed, unit_i>>
    /\ UNCHANGED <<players, ledger, adv, job, start_players, start_store, log_id, exit_code, calls,
                   units, no_resume, already_fetched, failed, index_df, stats_df, u_store>>

\* every batch of players handled: step 4
ShotLoopDone ==
    /\ pc = "loop" /\ job = "fetch_shot_charts"
    /\ unit_i = Len(units)
    /\ pc' = "complete"
    /\ UNCHANGED <<players, ledger, adv, job, start_players, start_store, log_id, exit_code, calls,
                   api_requests, localVars, upsertVars>>

(***************************************************************************)
(* calculate_percentiles.py                                                *)
(***************************************************************************)
MaxUpdateFailures == 1

\* rows = get_tier1_advanced_stats(season) returns: the current season's
\* rows of the active Tier-1 players; no rows: complete(0) and return
GetTier1AdvReturns ==
    /\ pc = "body" /\ job = "calculate_percentiles"
    /\ LET order == SetToSeq({pid \in ActiveTier1 : adv[<<pid, CurrentSeason>>].exists})
           rows == [k \in 1..Len(order) |->
                      LET row == adv[<<order[k], CurrentSeason>>] IN
                      [nba_player_id |-> order[k], per |-> row.per, ts_pct |-> row.ts_pct,
                       usg_pct |-> row.usg_pct, ws |-> row.ws, bpm |-> row.bpm]]
       IN  /\ all_records' = rows
           /\ units' = order
           /\ pc' = IF rows = <<>> THEN "complete" ELSE "update"
    /\ UNCHANGED <<players, ledger, adv, job, start_players, start_store, log_id, exit_code, calls,
                   api_requests, unit_i, processed, no_resume, already_fetched, failed, index_df, stats_df,
                   upsertVars>>

\* mutant: a column is written only where the row has no value yet
DatastoreUpdatePercentiles_FillOnly(pid, pctile_values) ==
    adv' = [adv EXCEPT ![<<pid, CurrentSeason>>] =
              [f \in DOMAIN @ |->
                 IF f \in PctileCols /\ @[f] = NULL
                 THEN (IF pctile_values[f] = NULL THEN NULL ELSE 10 * pctile_values[f])
                 ELSE @[f]]]

\* .update(pctile_values).eq("nba_player_id", pid).eq("season", season):
\* the five percentile columns of the row (kept in tenths of a percent)
DatastoreUpdatePercentiles(pid, pctile_values) ==
    adv' = [adv EXCEPT ![<<pid, CurrentSeason>>] =
              [f \in DOMAIN @ |->
                 IF f \in PctileCols
                 THEN (IF pctile_values[f] = NULL THEN NULL ELSE 10 * pctile_values[f])
                 ELSE IF f = "rule"
                 THEN [c \in PctileCols |->
                         IF pctile_values[c] = NULL THEN "none" ELSE "nonnull"]
                 ELSE @[f]]]

\* update_percentiles: the update of the next player returns
UpdateOk ==
    /\ pc = "update"
    /\ unit_i < Len(units)
    /\ LET pid == units[unit_i + 1] IN
         DatastoreUpdatePercentiles(pid, compute_all_percentiles(all_records)[pid])
    /\ processed' = processed + 1
    /\ unit_i' = unit_i + 1
    /\ UNCHANGED <<players, ledger, job, start_players, start_store, pc, log_id, exit_code, calls,
                   api_requests, units, all_records, no_resume, already_fetched, failed, index_df, stats_df,
                   upsertVars>>

\* the update of the next player raises (it may or may not have reached
\* the datastore): logged, `continue`
UpdateRaises ==
    /\ pc = "update"
    /\ unit_i < Len(units)
    /\ unit_i - processed < MaxUpdateFailures
    /\ LET pid == units[unit_i + 1] IN
         \E applied \in BOOLEAN :
            IF applied
            THEN DatastoreUpdatePercentiles(pid, compute_all_percentiles(all_records)[pid])
            ELSE UNCHANGED adv
    /\ failed' = failed \cup {units[unit_i + 1]}
    /\ unit_i' = unit_i + 1
    /\ UNCHANGED <<players, ledger, job, start_players, start_store, pc, log_id, exit_code,
                   calls, api_requests, units, all_records, processed, no_resume, already_fetched,
                   index_df, stats_df, upsertVars>>

\* update_percentiles returns `updated`
UpdateDone ==
    /\ pc = "update"
    /\ unit_i = Len(units)
    /\ pc' = "complete"
    /\ UNCHANGED <<players, ledger, adv, job, start_players, start_store, log_id, exit_code, calls,
                   api_requests, localVars, upsertVars>>

(***************************************************************************)
(* Spec: one run of any of the six scripts against a datastore holding up  *)
(* to MaxPlayers players in any state (absent, or present with any         *)
(* is_active and tier).  The tables a script reads besides players start   *)
(* in the states earlier runs leave: for calculate_percentiles,            *)
(* player_advanced_stats empty or filled by a complete                     *)
(* fetch_advanced_stats run; for fetch_shot_charts, shot_chart_data        *)
(* holding rows of any subset of the players.                              *)
(***************************************************************************)
MaxPlayers == 2

PlayerRows == {NoPlayer} \cup [exists : {TRUE}, is_active : BOOLEAN, tier : {1, 2}]

NoRule == [c \in PctileCols |-> "none"]

NoAdv ==
    [exists |-> FALSE,
     per |-> NULL, ts_pct |-> NULL, usg_pct |-> NULL, ws |-> NULL, bpm |-> NULL,
     per_pctile |-> NULL, ts_pctile |-> NULL, usg_pctile |-> NULL, ws_pctile |-> NULL,
     bpm_pctile |-> NULL,
     rule |-> NoRule]

AdvEmpty(P) == [key \in P \X Seasons |-> NoAdv]

AdvFull(P) ==
    [key \in P \X Seasons |->
        LET records == apply_percentiles(
                          build_season_records(UpstreamAdvFrame(P, key[2]),
                                               UpstreamBaseFrame(P, key[2]), P, key[2]))
            r == records[CHOOSE k \in 1..Len(records) : records[k].nba_player_id = key[1]]
        IN  AdvRow(WithRule(r, "gated"))]

\* PlayerIndex responses: the players of S in order, those of U unnamed
IndexFrame(S, U) ==
    LET order == SetToSeq(S) IN
    [k \in 1..Len(order) |-> [PERSON_ID |-> order[k], named |-> order[k] \notin U]]

\* empty, everyone, everyone with the last player unnamed, only the first
\* player, everyone but the first player
IndexFrames(P) ==
    LET first == CHOOSE x \in P : \A y \in P : x <= y
        last == CHOOSE x \in P : \A y \in P : y <= x
    IN  {IndexFrame({}, {}), IndexFrame(P, {}), IndexFrame(P, {last}),
         IndexFrame({first}, {}), IndexFrame(P \ {first}, {})}

\* LeagueDashPlayerStats responses: empty, or one row per player with 19.9
\* or 20.0 minutes: the same for everyone, or alternating
LeagueFrames(P) ==
    {<<>>} \cup
    {[k \in 1..Cardinality(P) |->
        [PLAYER_ID |-> SetToSeq(P)[k],
         MIN |-> IF SetToSeq(P)[k] % 2 = 1 THEN odd ELSE even]] :
        odd \in {1990, MPG_TIER1_THRESHOLD}, even \in {1990, MPG_TIER1_THRESHOLD}}

InitJob(j, P) ==
    /\ players \in [P -> PlayerRows]
    /\ start_players = players
    /\ adv \in (IF j = "calculate_percentiles"
                THEN {AdvEmpty(P), AdvFull(P)} ELSE {AdvEmpty(P)})
    /\ u_store \in (IF j = "fetch_shot_charts"
                    THEN {[t \in Tables |->
                             IF t = "shot_chart_data"
                             THEN {[nba_player_id |-> pid, k |-> 1] : pid \in S}
                             ELSE {}] : S \in SUBSET P}
                    ELSE {[t \in Tables |-> {}]})
    /\ start_store = u_store
    /\ ledger = <<>>
    /\ job = j
    /\ pc = "log_start"
    /\ no_resume \in (IF j = "fetch_shot_charts" THEN BOOLEAN ELSE {FALSE})
    /\ failed = {}
    /\ already_fetched = {}
    /\ log_id = 0
    /\ exit_code = NULL
    /\ calls = <<>>
    /\ api_requests = {}
    /\ units = <<>>
    /\ unit_i = 0
    /\ all_records = <<>>
    /\ processed = 0
    /\ index_df = <<>>
    /\ stats_df = <<>>
    /\ u_table = "none"
    /\ u_batch = UPSERT_BATCH_SIZE
    /\ u_records = <<>>
    /\ u_i = 0
    /\ u_upserted = 0
    /\ u_ops = <<>>
    /\ u_pc = "idle"
    /\ PctIdle
    /\ FetchIdle

Init == \E j \in Jobs : InitJob(j, 1..MaxPlayers)

Next ==
    \/ LogRefreshStartOk /\ UNCHANGED <<pctVars, fetchVars>>
    \/ LogRefreshStartRaises /\ UNCHANGED <<pctVars, fetchVars>>
    \/ \E df \in IndexFrames(DOMAIN players) : FetchPlayerIndexReturns(df) /\ UNCHANGED <<pctVars, fetchVars>>
    \/ FetchPlayerIndexRaises /\ UNCHANGED <<pctVars, fetchVars>>
    \/ \E df \in LeagueFrames(DOMAIN players) : FetchLeagueStatsReturns(df) /\ UNCHANGED <<pctVars, fetchVars>>
    \/ FetchLeagueStatsRaises /\ UNCHANGED <<pctVars, fetchVars>>
    \/ (pc = "upsert" /\ UpsertChunkOk) /\ UNCHANGED <<pctVars, fetchVars, ledger, ctlVars, localVars>>
    \/ (pc = "upsert" /\ UpsertChunkRaises) /\ UNCHANGED <<pctVars, fetchVars, ledger, ctlVars, localVars>>
    \/ (pc = "upsert" /\ UpsertReturn) /\ UNCHANGED <<pctVars, fetchVars, ledger, ctlVars, localVars>>
    \/ AfterUpsert /\ UNCHANGED <<pctVars, fetchVars>>
    \/ \E done \in SUBSET DOMAIN players, raised \in BOOLEAN :
          MarkInactive(done, raised) /\ UNCHANGED <<pctVars, fetchVars>>
    \/ GetTier1Returns /\ UNCHANGED <<pctVars, fetchVars>>
    \/ GetTier1Raises /\ UNCHANGED <<pctVars, fetchVars>>
    \/ \E n \in 0..MaxUnitRecords : PlayerFetchReturns(n) /\ UNCHANGED <<pctVars, fetchVars>>
    \/ PlayerFetchRaises /\ UNCHANGED <<pctVars, fetchVars>>
    \/ LoopDone /\ UNCHANGED <<pctVars, fetchVars>>
    \/ \E adv_df \in {<<>>, UpstreamAdvFrame(DOMAIN players, unit_i + 1)} :
          SeasonReturns(adv_df) /\ UNCHANGED <<pctVars, fetchVars>>
    \/ SeasonRaises /\ UNCHANGED <<pctVars, fetchVars>>
    \/ \E query_ok \in BOOLEAN : ResumeCheck(query_ok) /\ UNCHANGED <<pctVars, fetchVars>>
    \/ \E n, m \in 0..MaxUnitRecords : ShotFetchReturns(n, m) /\ UNCHANGED <<pctVars, fetchVars>>
    \/ ShotLoopDone /\ UNCHANGED <<pctVars, fetchVars>>
    \/ GetTier1AdvReturns /\ UNCHANGED <<pctVars, fetchVars>>
    \/ UpdateOk /\ UNCHANGED <<pctVars, fetchVars>>
    \/ UpdateRaises /\ UNCHANGED <<pctVars, fetchVars>>
    \/ UpdateDone /\ UNCHANGED <<pctVars, fetchVars>>
    \/ LogRefreshCompleteOk /\ UNCHANGED <<pctVars, fetchVars>>
    \/ LogRefreshCompleteRaises /\ UNCHANGED <<pctVars, fetchVars>>
    \/ HandlerLogFailedOk /\ UNCHANGED <<pctVars, fetchVars>>
    \/ HandlerLogFailedRaises /\ UNCHANGED <<pctVars, fetchVars>>

Spec == Init /\ [][Next]_vars

\* C2 (as claimed): a run whose log_refresh_start returned, and that has
\* ended through its own control flow, never leaves its ledger entry in
\* 'started'.
C2_NoEntryLeftStarted ==
    (pc = "exited" /\ log_id # 0) => ledger[log_id].status # "started"

\* C10 (as claimed): a Tier-1 job that found zero active Tier-1 players
\* has, when it exits, issued no upstream request and no upsert, invoked
\* log_refresh_failed once and nothing after it, left its ledger entry
\* 'failed' and exited with a non-zero status.
C10_NoTier1PlayersFails ==
    (pc = "exited" /\ job \in Tier1Jobs /\ log_id # 0 /\ "ValueError" \in Range(calls)) =>
        /\ api_requests = {}
        /\ u_pc = "idle" /\ u_ops = <<>>
        /\ calls = <<"start", "ValueError", "failed">>
        /\ ledger[log_id].status = "failed"
        /\ exit_code # 0 /\ exit_code # NULL

\* the classification of player pid by the run's league_stats_df alone
LatestClassification(pid) ==
    LET rows == {k \in 1..Len(stats_df) : stats_df[k].PLAYER_ID = pid}
        last == CHOOSE k \in rows : \A j \in rows : j <= k
    IN  IF rows # {} /\ stats_df[last].MIN # NULL /\ stats_df[last].MIN >= 2000
        THEN 1 ELSE 2

\* the record of player pid was in a chunk whose write reached the datastore
WrittenByRun(pid) ==
    \E k \in 1..Len(u_records) :
        /\ u_records[k].nba_player_id = pid
        /\ \E o \in 1..Len(u_ops) :
              u_ops[o].applied /\ u_ops[o].first < k /\ k <= u_ops[o].first + u_ops[o].size

\* C9 (amended): during and after a fetch_players run, whatever tiers the
\* earlier runs stored, the stored tier of a player whose record the run
\* wrote to the datastore is the classification of the player's minutes in
\* this run alone; every other player (no record built, or the chunk's
\* write failed) keeps the tier stored before the run.
C9_WrittenTierIsLatestClassification ==
    (job = "fetch_players" /\ u_table = "players") =>
        \A pid \in DOMAIN players :
            players[pid].tier = IF WrittenByRun(pid) THEN LatestClassification(pid)
                                ELSE start_players[pid].tier

\* a run that demotes player 1 from Tier 1 and promotes player 2 from Tier 2
C9_Witness ==
    /\ job = "fetch_players" /\ pc = "exited" /\ exit_code = 0
    /\ start_players[1] = [exists |-> TRUE, is_active |-> TRUE, tier |-> 1]
    /\ start_players[2] = [exists |-> TRUE, is_active |-> TRUE, tier |-> 2]
    /\ WrittenByRun(1) /\ WrittenByRun(2)
    /\ players[1].tier = 2 /\ players[2].tier = 1

\* C9 (as claimed): after a fetch_players run that built and upserted its
\* records, the stored tier of every player of the fetched roster is the
\* classification of the player's minutes in that run.
C9_RosterTierIsLatestClassification ==
    (job = "fetch_players" /\ u_table = "players" /\ u_pc = "done") =>
        \A k \in 1..Len(index_df) :
            players[index_df[k].PERSON_ID].tier = LatestClassification(index_df[k].PERSON_ID)
(***************************************************************************)
(* SpecTier: build_player_records on PlayerIndex frames of up to           *)
(* MaxIndexRows rows and per-game frames of up to MaxStatsRows rows, over  *)
(* two players: repeated and unnamed PlayerIndex rows; absent, repeated    *)
(* and missing-MIN per-game rows; 19.99, 20.0 and 35.5 minutes.            *)
(***************************************************************************)
MaxIndexRows == 2
MaxStatsRows == 2

TierIds == {1, 2}

TierMinutes == {NULL, 1999, MPG_TIER1_THRESHOLD, 3550}

FramesUpTo(n, Rows) == UNION {[1..len -> Rows] : len \in 0..n}

InitTier ==
    /\ index_df \in FramesUpTo(MaxIndexRows, [PERSON_ID : TierIds, named : BOOLEAN])
    /\ stats_df \in FramesUpTo(MaxStatsRows, [PLAYER_ID : TierIds, MIN : TierMinutes])
    /\ all_records = <<>>
    /\ pc = "idle"
    /\ job = "none"
    /\ players = <<>>
    /\ start_players = <<>>
    /\ start_store = <<>>
    /\ ledger = <<>>
    /\ adv = <<>>
    /\ log_id = 0
    /\ exit_code = NULL
    /\ calls = <<>>
    /\ api_requests = {}
    /\ units = <<>>
    /\ unit_i = 0
    /\ processed = 0
    /\ no_resume = FALSE
    /\ failed = {}
    /\ already_fetched = {}
    /\ UpsertIdle
    /\ PctIdle
    /\ FetchIdle

\* records = build_player_records(player_index_df, league_stats_df)
BuildPlayerRecords ==
    /\ pc = "idle"
    /\ all_records' = build_player_records(index_df, stats_df)
    /\ pc' = "built"
    /\ UNCHANGED <<players, ledger, adv, job, start_players, start_store, log_id, exit_code, calls,
                   api_requests, units, unit_i, processed, no_resume, already_fetched, failed, index_df, stats_df,
                   upsertVars, pctVars, fetchVars>>

NextTier == BuildPlayerRecords

SpecTier == InitTier /\ [][NextTier]_vars

\* the per-game rows of player pid
StatsRowsOf(pid) == {k \in 1..Len(stats_df) : stats_df[k].PLAYER_ID = pid}

\* C8: every record build_player_records returns has tier 1 or 2; tier 1
\* exactly when the player's minutes in the per-game stats (its last row
\* there) are present and >= 20.0, so 20.0 gives tier 1, 19.99 tier 2, and
\* a player absent from the stats or with a missing MIN gets tier 2.
C8_TierOneIffTwentyMinutes ==
    pc = "built" =>
        \A k \in 1..Len(all_records) :
            LET r == all_records[k]
                rows == StatsRowsOf(r.nba_player_id)
                min == stats_df[CHOOSE j \in rows : \A i \in rows : i <= j].MIN
            IN  /\ r.tier \in {1, 2}
                /\ rows = {} => r.tier = 2
                /\ rows # {} =>
                      /\ min = NULL => r.tier = 2
                      /\ min = 1999 => r.tier = 2
                      /\ min = 2000 => r.tier = 1
                      /\ (r.tier = 1) <=> (min # NULL /\ min >= 2000)

\* player 1 at exactly 20.0 minutes is tier 1, player 2 at 19.99 is tier 2
C8_Witness ==
    /\ pc = "built"
    /\ stats_df = <<[PLAYER_ID |-> 1, MIN |-> 2000], [PLAYER_ID |-> 2, MIN |-> 1999]>>
    /\ all_records = <<[nba_player_id |-> 1, is_active |-> TRUE, tier |-> 1],
                       [nba_player_id |-> 2, is_active |-> TRUE, tier |-> 2]>>
(***************************************************************************)
(* SpecColumns: one pass of the two jobs that write the percentile columns *)
(* of player_advanced_stats, fetch_advanced_stats and then                 *)
(* calculate_percentiles, over ColPlayers active Tier-1 players and an     *)
(* empty player_advanced_stats table.  Each stored percentile carries the  *)
(* rule it was computed under: "gated" (compute_percentile_map) or         *)
(* "nonnull" (compute_all_percentiles).                                    *)
(***************************************************************************)
ColPlayers == 10

Pipeline == <<"fetch_advanced_stats", "calculate_percentiles">>

InitColumns ==
    /\ players = [pid \in 1..ColPlayers |-> [exists |-> TRUE, is_active |-> TRUE, tier |-> 1]]
    /\ start_players = players
    /\ adv = AdvEmpty(1..ColPlayers)
    /\ ledger = <<>>
    /\ job = "none"
    /\ pc = "idle"
    /\ log_id = 0
    /\ exit_code = NULL
    /\ calls = <<>>
    /\ api_requests = {}
    /\ units = <<>>
    /\ unit_i = 0
    /\ all_records = <<>>
    /\ processed = 0
    /\ no_resume = FALSE
    /\ failed = {}
    /\ already_fetched = {}
    /\ index_df = <<>>
    /\ stats_df = <<>>
    /\ UpsertIdle
    /\ start_store = u_store
    /\ PctIdle
    /\ FetchIdle

NextColumns ==
    \/ /\ Len(ledger) < Len(Pipeline)
       /\ ProcessStart(Pipeline[Len(ledger) + 1])
       /\ UNCHANGED <<pctVars, fetchVars>>
    \/ LogRefreshStartOk /\ UNCHANGED <<pctVars, fetchVars>>
    \/ GetTier1Returns /\ UNCHANGED <<pctVars, fetchVars>>
    \/ GetTier1Raises /\ UNCHANGED <<pctVars, fetchVars>>
    \/ \E adv_df \in {<<>>, UpstreamAdvFrame(DOMAIN players, unit_i + 1)} :
          SeasonReturns(adv_df) /\ UNCHANGED <<pctVars, fetchVars>>
    \/ SeasonRaises /\ UNCHANGED <<pctVars, fetchVars>>
    \/ LoopDone /\ UNCHANGED <<pctVars, fetchVars>>
    \/ (pc = "upsert" /\ UpsertChunkOk) /\ UNCHANGED <<pctVars, fetchVars, ledger, ctlVars, localVars>>
    \/ (pc = "upsert" /\ UpsertChunkRaises) /\ UNCHANGED <<pctVars, fetchVars, ledger, ctlVars, localVars>>
    \/ (pc = "upsert" /\ UpsertReturn) /\ UNCHANGED <<pctVars, fetchVars, ledger, ctlVars, localVars>>
    \/ AfterUpsert /\ UNCHANGED <<pctVars, fetchVars>>
    \/ GetTier1AdvReturns /\ UNCHANGED <<pctVars, fetchVars>>
    \/ UpdateOk /\ UNCHANGED <<pctVars, fetchVars>>
    \/ UpdateRaises /\ UNCHANGED <<pctVars, fetchVars>>
    \/ UpdateDone /\ UNCHANGED <<pctVars, fetchVars>>
    \/ LogRefreshCompleteOk /\ UNCHANGED <<pctVars, fetchVars>>
    \/ HandlerLogFailedOk /\ UNCHANGED <<pctVars, fetchVars>>

SpecColumns == InitColumns /\ [][NextColumns]_vars

\* the rules behind the values stored in percentile column col of season
RulesUsed(season, col) ==
    {adv[key].rule[col] : key \in {k \in DOMAIN adv : k[2] = season /\ adv[k].exists}}
        \ {"none"}

\* C5 (as claimed): between runs, the values stored in one percentile
\* column for one season are all computed under a single qualification
\* rule, never some under the minutes-gated pool and others under the
\* any-non-null pool.
C5_OneRulePerColumn ==
    pc \in {"idle", "exited"} =>
        \A season \in Seasons : \A col \in PctileCols :
            Cardinality(RulesUsed(season, col)) <= 1

(***************************************************************************)
(* SpecRetry: one call of a function wrapped by                            *)
(* with_retry(max_retries, base_delay), every invocation of the wrapped    *)
(* function free to return or to raise.                                    *)
(***************************************************************************)
MaxRetries == 4
MaxBaseDelay == 10

RECURSIVE Pow2(_)
Pow2(n) == IF n = 0 THEN 1 ELSE 2 * Pow2(n - 1)

\* mutant: linear backoff
RetryDelay_Linear(base_delay, attempt) == base_delay * attempt

\* delay = base_delay * (2 ** (attempt - 1))
RetryDelay(base_delay, attempt) == base_delay * Pow2(attempt - 1)

\* return func(*args, **kwargs) returns
RetryInvokeReturns ==
    /\ r_pc = "loop"
    /\ r_attempt <= r_k
    /\ r_events' = Append(r_events, [ev |-> "ok", n |-> r_attempt])
    /\ r_pc' = "returned"
    /\ UNCHANGED <<r_k, r_d, r_attempt>>

\* func raises: on the last attempt the exception is re-raised, otherwise
\* the wrapper sleeps `delay` and the loop goes on
RetryInvokeRaises ==
    /\ r_pc = "loop"
    /\ r_attempt <= r_k
    /\ IF r_attempt = r_k
       THEN /\ r_events' = Append(r_events, [ev |-> "fail", n |-> r_attempt])
            /\ r_pc' = "raised"
            /\ UNCHANGED r_attempt
       ELSE /\ r_events' = r_events \o
                              <<[ev |-> "fail", n |-> r_attempt],
                                [ev |-> "sleep", n |-> RetryDelay(r_d, r_attempt)]>>
            /\ r_attempt' = r_attempt + 1
            /\ UNCHANGED r_pc
    /\ UNCHANGED <<r_k, r_d>>

\* range(1, max_retries + 1) is empty (max_retries = 0): the wrapper
\* returns None without an invocation
RetryLoopEnds ==
    /\ r_pc = "loop"
    /\ r_attempt > r_k
    /\ r_pc' = "returned"
    /\ UNCHANGED <<r_k, r_d, r_attempt, r_events>>

InitRetry ==
    /\ r_k \in 0..MaxRetries
    /\ r_d \in 1..MaxBaseDelay
    /\ r_attempt = 1
    /\ r_events = <<>>
    /\ r_pc = "loop"
    /\ rl_clock = ProcessStartTime
    /\ rl_last = 0
    /\ rl_pc = "idle"
    /\ rl_wake = 0
    /\ rl_returns = <<>>
    /\ BuildIdle /\ MoreIdle
    /\ UpsertIdle /\ PctIdle /\ JobIdle /\ players = <<>>

NextRetry ==
    \/ RetryInvokeReturns /\ UNCHANGED <<upsertVars, pctVars, jobVars, rateVars, buildVars, moreVars>>
    \/ RetryInvokeRaises /\ UNCHANGED <<upsertVars, pctVars, jobVars, rateVars, buildVars, moreVars>>
    \/ RetryLoopEnds /\ UNCHANGED <<upsertVars, pctVars, jobVars, rateVars, buildVars, moreVars>>

SpecRetry == InitRetry /\ [][NextRetry]_vars

\* the invocations among the wrapper's events
Invocations == SelectSeq(r_events, LAMBDA e : e.ev # "sleep")

\* C11: with max_retries = k >= 1 the wrapped function is invoked at most
\* k times, numbered 1, 2, ...; nothing follows an invocation that
\* returned; the i-th failed invocation with i < k is followed by a sleep
\* of base_delay * 2^(i-1) seconds and there is no other sleep; after the
\* k-th failure the wrapper raises with no sleep after it.
C11_RetryAtMostKWithBackoff ==
    r_k >= 1 =>
        /\ Len(Invocations) <= r_k
        /\ \A j \in 1..Len(Invocations) : Invocations[j].n = j
        /\ \A i \in 1..Len(r_events) :
              /\ r_events[i].ev = "ok" => (i = Len(r_events) /\ r_pc = "returned")
              /\ (r_events[i].ev = "fail" /\ r_events[i].n < r_k) =>
                    /\ i < Len(r_events)
                    /\ r_events[i + 1].ev = "sleep"
                    /\ \E e \in 0..MaxRetries :
                          /\ e = r_events[i].n - 1
                          /\ r_events[i + 1].n = r_d * (2 ^ e)
              /\ (r_events[i].ev = "fail" /\ r_events[i].n = r_k) =>
                    (i = Len(r_events) /\ r_pc = "raised")
              /\ r_events[i].ev = "sleep" => (i > 1 /\ r_events[i - 1].ev = "fail")
        /\ r_pc = "returned" => r_events[Len(r_events)].ev = "ok"
        /\ r_pc = "raised" => Len(Invocations) = r_k

\* max_retries = 4, base_delay = 10: three failures, sleeps of 10, 20 and
\* 40 seconds, then the fourth invocation returns
C11_Witness ==
    /\ r_k = 4 /\ r_d = 10 /\ r_pc = "returned"
    /\ r_events = <<[ev |-> "fail", n |-> 1], [ev |-> "sleep", n |-> 10],
                    [ev |-> "fail", n |-> 2], [ev |-> "sleep", n |-> 20],
                    [ev |-> "fail", n |-> 3], [ev |-> "sleep", n |-> 40],
                    [ev |-> "ok", n |-> 4]>>

(***************************************************************************)
(* SpecRate: the calls of rate_limit() made by one process.  Time is in    *)
(* half seconds; the clock read by time.time() does not go back and        *)
(* time.sleep(t) returns no earlier than t after it was called.            *)
(***************************************************************************)
MaxElapsed == 14

\* mutant: the limiter never sleeps
SleepTime_None(elapsed) == 0

\* if elapsed < REQUEST_DELAY: sleep_time = REQUEST_DELAY - elapsed
SleepTime(elapsed) ==
    IF elapsed < REQUEST_DELAY THEN REQUEST_DELAY - elapsed ELSE 0

\* time passes
Tick ==
    /\ rl_clock < ProcessStartTime + MaxElapsed
    /\ rl_clock' = rl_clock + 1
    /\ UNCHANGED <<rl_last, rl_pc, rl_wake, rl_returns>>

\* now = time.time(); elapsed = now - _last_request_time; the sleep, if
\* any, is entered
RateLimitEnter ==
    /\ rl_pc = "idle"
    /\ rl_pc' = "called"
    /\ rl_wake' = rl_clock + SleepTime(rl_clock - rl_last)
    /\ rl_returns' = Append(rl_returns,
                            [called |-> rl_clock, at |-> NULL,
                             slept |-> SleepTime(rl_clock - rl_last) > 0])
    /\ UNCHANGED <<rl_clock, rl_last>>

\* _last_request_time = time.time(), the last statement of rate_limit
RateLimitReturn ==
    /\ rl_pc = "called"
    /\ rl_clock >= rl_wake
    /\ rl_last' = rl_clock
    /\ rl_returns' = [rl_returns EXCEPT ![Len(rl_returns)].at = rl_clock]
    /\ rl_pc' = "idle"
    /\ UNCHANGED <<rl_clock, rl_wake>>

InitRate ==
    /\ rl_clock = ProcessStartTime
    /\ rl_last = 0
    /\ rl_pc = "idle"
    /\ rl_wake = 0
    /\ rl_returns = <<>>
    /\ r_k = 0 /\ r_d = 0 /\ r_attempt = 0 /\ r_events = <<>> /\ r_pc = "idle"
    /\ BuildIdle /\ MoreIdle
    /\ UpsertIdle /\ PctIdle /\ JobIdle /\ players = <<>>

NextRate ==
    \/ Tick /\ UNCHANGED <<upsertVars, pctVars, jobVars, retryVars, buildVars, moreVars>>
    \/ RateLimitEnter /\ UNCHANGED <<upsertVars, pctVars, jobVars, retryVars, buildVars, moreVars>>
    \/ RateLimitReturn /\ UNCHANGED <<upsertVars, pctVars, jobVars, retryVars, buildVars, moreVars>>

SpecRate == InitRate /\ [][NextRate]_vars

\* the calls that have returned
Returned == SelectSeq(rl_returns, LAMBDA c : c.at # NULL)

\* C13: of any two consecutive calls of rate_limit() the second returns no
\* earlier than REQUEST_DELAY after the first returned, and a call made at
\* least REQUEST_DELAY after the previous call returned does not sleep.
C13_MinimumSpacing ==
    \A i \in 2..Len(rl_returns) :
        /\ rl_returns[i].at # NULL =>
              rl_returns[i].at - rl_returns[i - 1].at >= REQUEST_DELAY
        /\ rl_returns[i].called - rl_returns[i - 1].at >= REQUEST_DELAY =>
              ~rl_returns[i].slept

\* three calls returned: the second was made at once and slept, the third
\* was made REQUEST_DELAY after the second returned and did not sleep
C13_Witness ==
    /\ Len(Returned) = 3
    /\ Returned[2].called = Returned[1].at /\ Returned[2].slept
    /\ Returned[3].called = Returned[2].at + REQUEST_DELAY /\ ~Returned[3].slept

(***************************************************************************)
(* Claims about the per-unit loops of the Tier-1 jobs (Spec)               *)
(***************************************************************************)
\* record r is in the table the job writes
Stored(r) ==
    IF job = "fetch_advanced_stats"
    THEN adv[<<r.nba_player_id, r.season>>].exists
    ELSE \E row \in u_store[TableOf(job)] :
            row.nba_player_id = r.nba_player_id /\ row.k = r.k

\* the k-th record handed to the upsert was in a chunk whose write reached
\* the datastore
ChunkApplied(k) ==
    \E o \in 1..Len(u_ops) :
        u_ops[o].applied /\ u_ops[o].first < k /\ k <= u_ops[o].first + u_ops[o].size

\* the request a unit of the loop starts with
UnitRequest(u) ==
    IF job = "fetch_advanced_stats"
    THEN [ep |-> "LeagueDashPlayerStats.Advanced", arg |-> u]
    ELSE [ep |-> EndpointOf(job), arg |-> u]

\* C12 (amended): in a Tier-1 job in which the fetch of a unit raised, the
\* except handler is entered, and log_refresh_failed called, only after
\* log_refresh_complete was called; once the loop is over every unit has
\* been requested, the records of the other units have been handed to the
\* upsert and each of them whose chunk was written is in the table; a run
\* whose log_refresh_complete returned leaves its ledger entry 'completed'.
C12_FailedUnitDoesNotFailRun ==
    (job \in Tier1Jobs /\ failed # {}) =>
        /\ (pc = "handler" \/ "failed" \in Range(calls)) => "complete" \in Range(calls)
        /\ pc \in {"complete", "handler", "exited"} =>
              /\ unit_i = Len(units)
              /\ \A k \in 1..Len(units) : UnitRequest(units[k]) \in api_requests
              /\ (job # "fetch_shot_charts" /\ all_records # <<>>) =>
                    (u_records = all_records /\ u_pc = "done")
              /\ job = "fetch_shot_charts" =>
                    processed + Cardinality(failed) = Len(units)
              /\ \A k \in 1..Len(u_records) : ChunkApplied(k) => Stored(u_records[k])
        /\ (pc = "exited" /\ exit_code = 0) => ledger[log_id].status = "completed"

\* fetch_season_stats over players 1 and 2: the fetch of player 1 raised,
\* the record of player 2 is stored and the ledger entry is 'completed'
C12_Witness ==
    /\ job = "fetch_season_stats" /\ pc = "exited" /\ exit_code = 0
    /\ failed = {1} /\ units = <<1, 2>>
    /\ [nba_player_id |-> 2, k |-> 1] \in u_store["player_season_stats"]
    /\ ledger[log_id].status = "completed"

\* C12 (as claimed): a Tier-1 job in which the fetch of a unit raised has,
\* when it exits, attempted every unit, stored the records of the other
\* units and left its ledger entry 'completed'.
C12_FailedUnitRunCompleted ==
    (pc = "exited" /\ job \in Tier1Jobs /\ failed # {}) =>
        /\ unit_i = Len(units)
        /\ \A k \in 1..Len(u_records) : Stored(u_records[k])
        /\ ledger[log_id].status = "completed"
\* the players for whom a request was issued
Requested == {q.arg : q \in api_requests}

\* the players with at least one shot_chart_data row when the run started
HadRows == {r.nba_player_id : r \in start_store["shot_chart_data"]}

\* C14 (amended): fetch_shot_charts never issues a request for a player of
\* already_fetched; once the loop is over it has issued a request for
\* every other active Tier-1 player and for nobody else.  already_fetched
\* is empty with --no-resume; with resume it is the set of players with a
\* row when the run started, or empty when the resume query raised.
C14_ResumeSkipsQueriedPlayers ==
    job = "fetch_shot_charts" =>
        /\ Requested \cap already_fetched = {}
        /\ no_resume => already_fetched = {}
        /\ already_fetched \in {HadRows, {}}
        /\ "complete" \in Range(calls) => Requested = ActiveTier1 \ already_fetched

\* resume: player 1 had a row and is skipped, player 2 is requested
C14_Witness ==
    /\ job = "fetch_shot_charts" /\ ~no_resume /\ pc = "exited" /\ exit_code = 0
    /\ ActiveTier1 = {1, 2} /\ HadRows = {1}
    /\ already_fetched = {1} /\ Requested = {2}

\* C14 (as claimed): with resume the run requests exactly the active
\* Tier-1 players without a row when it started, with --no-resume every
\* active Tier-1 player.
C14_ResumeSkipsPlayersWithRows ==
    (job = "fetch_shot_charts" /\ "complete" \in Range(calls)) =>
        Requested = IF no_resume THEN ActiveTier1 ELSE ActiveTier1 \ HadRows

(***************************************************************************)
(* SpecRerun: fetch_game_logs run up to MaxRuns times, one process after   *)
(* the other, against upstream data that does not change (every player     *)
(* has played MaxGames games); a process can be killed at any point.       *)
(***************************************************************************)
MaxRuns == 2
MaxGames == 30

RerunPlayers == {1, 2}

\* the process is killed (SIGKILL): nothing more of main runs
Kill ==
    /\ pc \notin {"idle", "exited"}
    /\ pc' = "exited"
    /\ exit_code' = -9
    /\ UNCHANGED <<players, ledger, adv, job, start_players, start_store, log_id, calls,
                   api_requests, localVars, upsertVars>>

InitRerun ==
    /\ InitJob("fetch_game_logs", RerunPlayers)
    /\ ActiveTier1 = RerunPlayers

NextRerun ==
    \/ (Len(ledger) < MaxRuns /\ ProcessStart("fetch_game_logs")) /\ UNCHANGED <<pctVars, fetchVars>>
    \/ Kill /\ UNCHANGED <<pctVars, fetchVars>>
    \/ LogRefreshStartOk /\ UNCHANGED <<pctVars, fetchVars>>
    \/ LogRefreshStartRaises /\ UNCHANGED <<pctVars, fetchVars>>
    \/ GetTier1Returns /\ UNCHANGED <<pctVars, fetchVars>>
    \/ GetTier1Raises /\ UNCHANGED <<pctVars, fetchVars>>
    \/ PlayerFetchReturns(MaxGames) /\ UNCHANGED <<pctVars, fetchVars>>
    \/ PlayerFetchRaises /\ UNCHANGED <<pctVars, fetchVars>>
    \/ LoopDone /\ UNCHANGED <<pctVars, fetchVars>>
    \/ (pc = "upsert" /\ UpsertChunkOk) /\ UNCHANGED <<pctVars, fetchVars, ledger, ctlVars, localVars>>
    \/ (pc = "upsert" /\ UpsertChunkRaises) /\ UNCHANGED <<pctVars, fetchVars, ledger, ctlVars, localVars>>
    \/ (pc = "upsert" /\ UpsertReturn) /\ UNCHANGED <<pctVars, fetchVars, ledger, ctlVars, localVars>>
    \/ AfterUpsert /\ UNCHANGED <<pctVars, fetchVars>>
    \/ LogRefreshCompleteOk /\ UNCHANGED <<pctVars, fetchVars>>
    \/ LogRefreshCompleteRaises /\ UNCHANGED <<pctVars, fetchVars>>
    \/ HandlerLogFailedOk /\ UNCHANGED <<pctVars, fetchVars>>
    \/ HandlerLogFailedRaises /\ UNCHANGED <<pctVars, fetchVars>>

SpecRerun == InitRerun /\ [][NextRerun]_vars

\* the games upstream of the active Tier-1 players
UpstreamKeys == ActiveTier1 \X (1..MaxGames)

\* the running or last process fetched every player and every chunk of its
\* upsert was written
CleanRunDone ==
    /\ units # <<>> /\ unit_i = Len(units) /\ failed = {}
    /\ u_pc = "done" /\ u_records = all_records
    /\ \A o \in 1..Len(u_ops) : u_ops[o].ok

\* C15: however often fetch_game_logs has run against unchanged upstream
\* data, and wherever earlier runs were killed or failed, game_logs never
\* holds two rows with the same (nba_player_id, game_id) nor a row that is
\* not an upstream game, and after a run that fetched every player and
\* wrote every chunk it holds exactly one row per upstream game: the rows
\* one complete run leaves.
C15_RerunLeavesOneRowPerGame ==
    /\ \A r1, r2 \in u_store["game_logs"] :
          (r1.nba_player_id = r2.nba_player_id /\ r1.k = r2.k) => r1 = r2
    /\ GameKeys(u_store["game_logs"]) \subseteq UpstreamKeys
    /\ CleanRunDone =>
          /\ GameKeys(u_store["game_logs"]) = UpstreamKeys
          /\ Cardinality(u_store["game_logs"]) = Cardinality(UpstreamKeys)

\* the first run was killed after it wrote only the first chunk; the second
\* run completed
C15_Witness ==
    /\ Len(ledger) = 2 /\ ledger[1].status = "started"
    /\ Cardinality(start_store["game_logs"]) = UPSERT_BATCH_SIZE
    /\ CleanRunDone /\ pc = "exited" /\ exit_code = 0
    /\ Cardinality(u_store["game_logs"]) = 2 * MaxGames

(***************************************************************************)
(* Claims about mark_inactive_players (Spec)                               *)
(***************************************************************************)
\* active_ids = {r["nba_player_id"] for r in records}: the latest roster
ActiveIds == {all_records[k].nba_player_id : k \in 1..Len(all_records)}

\* mark_inactive_players has returned
Marked == job = "fetch_players" /\ (pc = "complete" \/ "complete" \in Range(calls))

MaxBuildPlayers == 2

BuildPlayers == 1..MaxBuildPlayers

NoBaseRow == [present |-> FALSE, FG3A |-> NAN, FGA |-> NAN, FTA |-> NAN]

BaseCells ==
    {NoBaseRow} \cup
    [present : {TRUE}, FG3A : {NAN, 30}, FGA : {NAN, 0, 80}, FTA : {NAN, 20}]

\* the Base frame in which player pid has the cells c[pid]
BaseFrame(c) ==
    LET order == SetToSeq({pid \in DOMAIN c : c[pid].present}) IN
    [k \in 1..Len(order) |->
        [PLAYER_ID |-> order[k], FG3A |-> c[order[k]].FG3A, FGA |-> c[order[k]].FGA,
         FTA |-> c[order[k]].FTA]]

InitBuild ==
    /\ b_adv_df \in {UpstreamAdvFrame(S, CurrentSeason) : S \in SUBSET BuildPlayers}
    /\ b_base_df \in {BaseFrame(c) : c \in [BuildPlayers -> BaseCells]}
    /\ b_tier1_ids \in SUBSET BuildPlayers
    /\ b_records = <<>>
    /\ b_pc = "ready"
    /\ r_k = 0 /\ r_d = 0 /\ r_attempt = 0 /\ r_events = <<>> /\ r_pc = "idle"
    /\ rl_clock = ProcessStartTime /\ rl_last = 0 /\ rl_pc = "idle" /\ rl_wake = 0
    /\ rl_returns = <<>>
    /\ MoreIdle
    /\ UpsertIdle /\ PctIdle /\ JobIdle /\ players = <<>>

\* records = build_season_records(adv_df, base_df, tier1_ids, season, now)
\* returns, or raises when a division by zero was evaluated
BuildSeasonRecords ==
    /\ b_pc = "ready"
    /\ LET records == build_season_records(b_adv_df, b_base_df, b_tier1_ids,
                                           CurrentSeason)
       IN  /\ b_records' = records
           /\ b_pc' = IF \E k \in 1..Len(records) :
                            ZERO_DIVISION \in {records[k].three_par, records[k].ftr}
                      THEN "raised" ELSE "returned"
    /\ UNCHANGED <<b_adv_df, b_base_df, b_tier1_ids>>

NextBuild ==
    \/ BuildSeasonRecords /\ UNCHANGED <<upsertVars, pctVars, jobVars, retryVars, rateVars, moreVars>>

SpecBuild == InitBuild /\ [][NextBuild]_vars

\* the player ids of the rows of a frame
FrameIds(df) == {df[k].PLAYER_ID : k \in 1..Len(df)}

\* the FGA cell of player pid in the Base frame, NAN without a row
BaseFga(pid) ==
    IF pid \in FrameIds(b_base_df)
    THEN b_base_df[CHOOSE k \in 1..Len(b_base_df) : b_base_df[k].PLAYER_ID = pid].FGA
    ELSE NAN

\* C17: build_season_records never evaluates a division by zero; three_par
\* and ftr of every record are null or a finite non-negative number, and
\* both are null for a player whose FGA is zero or absent (no Base row, or
\* a missing FGA cell).
C17_RatiosNullWithoutAttempts ==
    b_pc # "ready" =>
        /\ b_pc = "returned"
        /\ \A k \in 1..Len(b_records) :
              LET r == b_records[k] IN
              /\ r.three_par = NULL \/ r.three_par >= 0
              /\ r.ftr = NULL \/ r.ftr >= 0
              /\ BaseFga(r.nba_player_id) \in {0, NAN} =>
                    (r.three_par = NULL /\ r.ftr = NULL)

\* player 1 has no Base row, player 2 has FGA = 0: both records are built
\* with null ratios
C17_Witness ==
    /\ b_pc = "returned" /\ Len(b_records) = 2
    /\ 1 \notin FrameIds(b_base_df) /\ BaseFga(2) = 0
    /\ \A k \in 1..2 : b_records[k].three_par = NULL /\ b_records[k].ftr = NULL

\* C18: build_season_records returns exactly one record for every player
\* who has a row in the Advanced frame and is Tier 1, with or without a
\* Base row, and no record for anybody else (a player with a Base row
\* only, or not in the Tier-1 set).
C18_LeftJoinOnAdvanced ==
    b_pc = "returned" =>
        \A pid \in BuildPlayers :
            Cardinality({k \in 1..Len(b_records) : b_records[k].nba_player_id = pid})
              = IF pid \in FrameIds(b_adv_df) \cap b_tier1_ids THEN 1 ELSE 0

\* player 1 is Tier 1 with an Advanced row and no Base row: one record;
\* player 2 is Tier 1 with a Base row only: no record
C18_Witness ==
    /\ b_pc = "returned"
    /\ b_tier1_ids = {1, 2}
    /\ FrameIds(b_adv_df) = {1} /\ FrameIds(b_base_df) = {2}
    /\ Len(b_records) = 1 /\ b_records[1].nba_player_id = 1

(***************************************************************************)
(* Claims about the records fetch_advanced_stats upserts (Spec)            *)
(***************************************************************************)
\* record r is as apply_percentiles returns it
Applied(r) == "min_pg" \notin DOMAIN r /\ PctileCols \subseteq DOMAIN r

\* C19: in fetch_advanced_stats every record main holds after
\* apply_percentiles returned, and every record handed to
\* upsert_advanced_stats, carries the five percentile columns and no
\* _min_pg: no record reaches the upsert without passing through
\* apply_percentiles.
C19_MinPgStrippedBeforeUpsert ==
    job = "fetch_advanced_stats" =>
        /\ \A k \in 1..Len(all_records) : Applied(all_records[k])
        /\ \A k \in 1..Len(u_records) : Applied(u_records[k])

\* a completed run that wrote records, one of them ranked
C19_Witness ==
    /\ job = "fetch_advanced_stats" /\ pc = "exited" /\ exit_code = 0
    /\ u_pc = "done" /\ u_upserted = Len(u_records) /\ u_records # <<>>
    /\ \E k \in 1..Len(u_records) : u_records[k].ts_pctile # NULL

(***************************************************************************)
(* SpecMissing: compute_all_percentiles and apply_percentiles on 1 to      *)
(* MaxPoolRows plain rows in which any of the values per, ts_pct and       *)
(* usg_pct of the first MaxMissingRows rows can be missing (None).         *)
(***************************************************************************)
MaxPoolRows == 11
MaxMissingRows == 2

MissingCols == {"per", "ts_pct", "usg_pct"}

\* n plain rows without the values of the cells M
RowsMissing(n, M) ==
    [k \in 1..n |->
        [f \in DOMAIN PlainRow(k) |-> IF <<k, f>> \in M THEN NULL ELSE PlainRow(k)[f]]]

InitMissing ==
    /\ p_rows \in {RowsMissing(n, M) :
                     n \in 1..MaxPoolRows,
                     M \in SUBSET ((1..MaxMissingRows) \X MissingCols)}
    /\ p_all = <<>>
    /\ p_all_done = FALSE
    /\ p_applied = <<>>
    /\ p_app_done = FALSE
    /\ UpsertIdle /\ JobIdle /\ FetchIdle /\ players = <<>>

NextMissing ==
    \/ ComputeAll /\ UNCHANGED <<upsertVars, jobVars, fetchVars>>
    \/ ApplyPercentiles /\ UNCHANGED <<upsertVars, jobVars, fetchVars>>

SpecMissing == InitMissing /\ [][NextMissing]_vars

\* the rows with a value for statistic c
Pool(c) == {k \in 1..Len(p_rows) : p_rows[k][c] # NULL}

\* the rows of Pool(c) with the minutes the inline ranking asks for
GatedPool(c) ==
    {k \in Pool(c) : p_rows[k].min_pg # NULL /\ p_rows[k].min_pg >= MPG_THRESHOLD}

\* the share of the rows of P with a value of c strictly below row k's, as
\* scale * share rounded
ShareBelow(c, k, P, scale) ==
    RoundHalfEven(scale * Cardinality({j \in P : p_rows[j][c] < p_rows[k][c]}),
                  Cardinality(P))

\* C20 (amended): a row whose value of a statistic is missing gets a null
\* percentile for that statistic and is left out of that statistic's pool
\* only: every other row is ranked against the rows that have the value,
\* and the row itself is ranked in every statistic it has a value for.  In
\* compute_all_percentiles this holds for a statistic whose pool keeps
\* MIN_PLAYERS_FOR_PERCENTILE rows, below that every percentile of the
\* statistic is null; in apply_percentiles the pool has no minimum.
C20_MissingValueLeavesOnlyItsPool ==
    /\ p_all_done =>
          \A c \in Range(StatCols) : \A k \in 1..Len(p_rows) :
              p_all[k][STAT_TO_PCTILE[c]] =
                 IF k \in Pool(c) /\ Cardinality(Pool(c)) >= MIN_PLAYERS_FOR_PERCENTILE
                 THEN ShareBelow(c, k, Pool(c), 100) ELSE NULL
    /\ p_app_done =>
          \A c \in {"ts_pct", "usg_pct"} : \A k \in 1..Len(p_rows) :
              p_applied[k][STAT_TO_PCTILE[c]] =
                 IF k \in GatedPool(c) THEN ShareBelow(c, k, GatedPool(c), 1000) ELSE NULL

\* eleven rows, row 1 without ts_pct: in both functions row 1 has no
\* ts_pctile but a usg_pctile, and row 11 is ranked above the other nine
\* rows of the ts_pct pool
C20_Witness ==
    /\ p_all_done /\ p_app_done
    /\ Len(p_rows) = 11
    /\ Pool("ts_pct") = 2..11 /\ Pool("usg_pct") = 1..11
    /\ p_all[1]["ts_pctile"] = NULL /\ p_all[1]["usg_pctile"] # NULL
    /\ p_all[11]["ts_pctile"] = 90
    /\ p_applied[1]["ts_pctile"] = NULL /\ p_applied[1]["usg_pctile"] # NULL
    /\ p_applied[11]["ts_pctile"] = 900

\* C20 (as claimed): whenever a value of a statistic is missing, the rows
\* that have the value are still ranked against each other and the rows
\* that lack it get null.
C20_OthersAlwaysRanked ==
    p_all_done =>
        \A c \in Range(StatCols) :
            Pool(c) # 1..Len(p_rows) =>
                \A k \in 1..Len(p_rows) :
                    p_all[k][STAT_TO_PCTILE[c]] =
                       IF k \in Pool(c) THEN ShareBelow(c, k, Pool(c), 100) ELSE NULL

(***************************************************************************)
(* SpecLedger: one call of log_refresh_failed on a refresh log of up to    *)
(* MaxEntries rows in any status, with an error text of 0, 1 or about      *)
(* ERROR_MESSAGE_LIMIT characters (up to MaxTextLen).  An error text is    *)
(* its sequence of characters; a timestamp is a clock reading.             *)
(***************************************************************************)
MaxEntries == 2
MaxTextLen == 2002
MaxClock == 3

ERROR_MESSAGE_LIMIT == 2000

\* a text of n characters that differ from place to place
Text(n) == [k \in 1..n |-> k % 7]

TextLens == {0, 1} \cup {n \in 2..MaxTextLen : n >= ERROR_MESSAGE_LIMIT - 2}

\* mutant: the text is stored whole
Truncate_Whole(error_message) == error_message

\* error_message[:2000]
Truncate(error_message) ==
    SubSeq(error_message, 1, Min(Len(error_message), ERROR_MESSAGE_LIMIT))

\* .update({"status": "failed", "error_message": ..., "completed_at": now})
\* .eq("id", log_id)
LogRefreshFailedUpdate(rows, id, error_message, now) ==
    [k \in 1..Len(rows) |->
        IF k = id
        THEN [rows[k] EXCEPT !.status = "failed",
                             !.error_message = Truncate(error_message),
                             !.completed_at = now]
        ELSE rows[k]]

\* the rows log_refresh_start, log_refresh_complete and log_refresh_failed
\* leave
LedgerRows ==
    {[job_name |-> "fetch_players", status |-> "started", players_updated |-> NULL,
      error_message |-> NULL, completed_at |-> NULL],
     [job_name |-> "fetch_players", status |-> "completed", players_updated |-> 0,
      error_message |-> NULL, completed_at |-> 1],
     [job_name |-> "fetch_players", status |-> "failed", players_updated |-> NULL,
      error_message |-> Text(3), completed_at |-> 1]}

InitLedger ==
    /\ ledger \in UNION {[1..n -> LedgerRows] : n \in 1..MaxEntries}
    /\ log_id \in 1..Len(ledger)
    /\ l_text \in {Text(n) : n \in TextLens}
    /\ l_now \in 2..MaxClock
    /\ l_before = ledger
    /\ l_pc = "called"
    /\ adv = <<>> /\ job = "none" /\ start_players = <<>> /\ start_store = <<>>
    /\ pc = "idle" /\ exit_code = NULL /\ calls = <<>> /\ api_requests = {}
    /\ units = <<>> /\ unit_i = 0 /\ all_records = <<>> /\ processed = 0
    /\ no_resume = FALSE /\ failed = {} /\ already_fetched = {}
    /\ index_df = <<>> /\ stats_df = <<>>
    /\ r_k = 0 /\ r_d = 0 /\ r_attempt = 0 /\ r_events = <<>> /\ r_pc = "idle"
    /\ rl_clock = ProcessStartTime /\ rl_last = 0 /\ rl_pc = "idle" /\ rl_wake = 0
    /\ rl_returns = <<>>
    /\ BuildIdle /\ PaceIdle /\ ShotIdle /\ CareerIdle
    /\ UpsertIdle /\ PctIdle /\ players = <<>>

\* the update's .execute() returns
LogRefreshFailedReturns ==
    /\ l_pc = "called"
    /\ ledger' = LogRefreshFailedUpdate(ledger, log_id, l_text, l_now)
    /\ l_pc' = "returned"
    /\ UNCHANGED <<l_text, l_now, l_before>>

\* the update's .execute() raises: the update may or may not have reached
\* the datastore
LogRefreshFailedRaises ==
    /\ l_pc = "called"
    /\ \E applied \in BOOLEAN :
          ledger' = IF applied
                    THEN LogRefreshFailedUpdate(ledger, log_id, l_text, l_now)
                    ELSE ledger
    /\ l_pc' = "raised"
    /\ UNCHANGED <<l_text, l_now, l_before>>

NextLedger ==
    \/ LogRefreshFailedReturns
          /\ UNCHANGED <<upsertVars, pctVars, players, adv, ctlVars, localVars,
                         retryVars, rateVars, buildVars, paceVars, shotVars,
                         careerVars>>
    \/ LogRefreshFailedRaises
          /\ UNCHANGED <<upsertVars, pctVars, players, adv, ctlVars, localVars,
                         retryVars, rateVars, buildVars, paceVars, shotVars,
                         careerVars>>

SpecLedger == InitLedger /\ [][NextLedger]_vars

\* the row carries status 'failed', the timestamp of the call and the first
\* ERROR_MESSAGE_LIMIT characters of the text
MarkedFailed(row) ==
    /\ row.status = "failed"
    /\ row.completed_at = l_now /\ row.completed_at # NULL
    /\ Len(row.error_message) = Min(Len(l_text), ERROR_MESSAGE_LIMIT)
    /\ Len(row.error_message) <= ERROR_MESSAGE_LIMIT
    /\ \A i \in 1..Len(row.error_message) : row.error_message[i] = l_text[i]

\* C21: a call of log_refresh_failed(log_id, job, text) that returns has
\* set the entry with that id to 'failed' with a completion timestamp and,
\* as error text, exactly the first 2000 characters of text (the whole
\* text when it is shorter); no other entry is modified, also when the
\* call raises (then the entry is either untouched or set as above).
C21_FailedTruncatesTo2000 ==
    (l_pc \in {"returned", "raised"}) =>
        /\ Len(ledger) = Len(l_before)
        /\ \A k \in 1..Len(ledger) : k # log_id => ledger[k] = l_before[k]
        /\ l_pc = "returned" => MarkedFailed(ledger[log_id])
        /\ l_pc = "raised" =>
              IF ledger[log_id] = l_before[log_id] THEN TRUE
              ELSE MarkedFailed(ledger[log_id])

\* a text of 2002 characters stored as its first 2000 in entry 1, which was
\* 'started'; entry 2 stays 'completed'
C21_Witness ==
    /\ l_pc = "returned"
    /\ Len(l_text) = ERROR_MESSAGE_LIMIT + 2
    /\ log_id = 1 /\ Len(ledger) = 2
    /\ l_before[1].status = "started" /\ ledger[1].status = "failed"
    /\ Len(ledger[1].error_message) = ERROR_MESSAGE_LIMIT
    /\ ledger[2].status = "completed"

(***************************************************************************)
(* C22: calculate_percentiles overwrites the five percentile columns       *)
(* (checked under SpecColumns, where fetch_advanced_stats has written the  *)
(* inline values before)                                                   *)
(***************************************************************************)

\* the rows read by the run that have a value for statistic c
RunPool(c) == {k \in 1..Len(all_records) : all_records[k][c] # NULL}

\* the percentile of row k for statistic c over the rows read by the run,
\* in tenths of a percent
RunPercentile(c, k) ==
    IF k \in RunPool(c) /\ Cardinality(RunPool(c)) >= MIN_PLAYERS_FOR_PERCENTILE
    THEN 10 * RoundHalfEven(
                 100 * Cardinality({j \in RunPool(c) :
                                      all_records[j][c] < all_records[k][c]}),
                 Cardinality(RunPool(c)))
    ELSE NULL

\* C22: in a calculate_percentiles run, once the update of a player has
\* returned, each of the five percentile columns of the player's row of the
\* current season holds the value computed in this run (null when the
\* statistic has fewer than 10 non-null values or the player's value is
\* null), whatever fetch_advanced_stats wrote there; and the run reaches
\* its end only after the update of every row was attempted, whether or
\* not an earlier update failed.
C22_RunOverwritesAllFiveColumns ==
    (job = "calculate_percentiles") =>
        /\ \A k \in 1..unit_i :
              units[k] \notin failed =>
                 \A c \in Range(StatCols) :
                    adv[<<units[k], CurrentSeason>>][STAT_TO_PCTILE[c]] = RunPercentile(c, k)
        /\ (pc = "complete" \/ (pc = "exited" /\ exit_code = 0)) => unit_i = Len(units)

\* the update of player 2 failed and did not reach the datastore: the row
\* keeps its inline values, while the rows of players 3 and 10 hold the
\* run's values (900 for the largest of ten ts_pct values, where the inline
\* value was 875), and per_pctile is null
C22_Witness ==
    /\ job = "calculate_percentiles" /\ pc = "exited" /\ exit_code = 0
    /\ failed = {2}
    /\ adv[<<2, CurrentSeason>>].rule["ts_pctile"] = "gated"
    /\ adv[<<10, CurrentSeason>>].ts_pctile = 900
    /\ adv[<<3, CurrentSeason>>].ts_pctile = 200
    /\ adv[<<10, CurrentSeason>>].per_pctile = NULL
    /\ unit_i = ColPlayers

(***************************************************************************)
(* SpecPacing: step 3 of fetch_shot_charts over 1 to MaxFetchPlayers       *)
(* players to fetch, seen through its upstream requests and its            *)
(* time.sleep calls; the fetch of up to MaxFetchFailures players raises.   *)
(* Times are in seconds.                                                   *)
(***************************************************************************)
MaxFetchPlayers == 21
MaxFetchFailures == 2

PLAYER_BATCH_SIZE == 10
INTER_PLAYER_DELAY == 3
INTER_BATCH_DELAY == 30

\* batch_num of the batch holding player idx (idx counts from 1)
BatchNum(idx) == (idx - 1) \div PLAYER_BATCH_SIZE + 1

\* len(batch) of the batch holding player idx, of n players to fetch
BatchLen(idx, n) == Min(PLAYER_BATCH_SIZE, n - (BatchNum(idx) - 1) * PLAYER_BATCH_SIZE)

\* enumerate's i of player idx in its batch
IndexInBatch(idx) == (idx - 1) % PLAYER_BATCH_SIZE

\* what follows the try of player idx: the inter-player delay when the try
\* ended normally and the player is not the last of the batch, and, after
\* the last player of a batch, the inter-batch pause when batches remain
SleepsAfter(idx, n, raised) ==
    (IF ~raised /\ IndexInBatch(idx) < BatchLen(idx, n) - 1
     THEN <<[ev |-> "sleep", arg |-> INTER_PLAYER_DELAY]>> ELSE <<>>)
    \o
    (IF /\ IndexInBatch(idx) = BatchLen(idx, n) - 1
        /\ CeilDiv(n, PLAYER_BATCH_SIZE) - BatchNum(idx) > 0
     THEN <<[ev |-> "sleep", arg |-> INTER_BATCH_DELAY]>> ELSE <<>>)

InitPacing ==
    /\ pace_n \in 1..MaxFetchPlayers
    /\ pace_done = 0
    /\ pace_failed = 0
    /\ pace_events = <<>>
    /\ pace_pc = "loop"
    /\ LogIdle /\ ShotIdle /\ CareerIdle
    /\ r_k = 0 /\ r_d = 0 /\ r_attempt = 0 /\ r_events = <<>> /\ r_pc = "idle"
    /\ rl_clock = ProcessStartTime /\ rl_last = 0 /\ rl_pc = "idle" /\ rl_wake = 0
    /\ rl_returns = <<>>
    /\ BuildIdle
    /\ UpsertIdle /\ PctIdle /\ JobIdle /\ players = <<>>

\* one iteration of the inner loop whose try ends normally
PacedPlayerOk ==
    /\ pace_pc = "loop"
    /\ pace_done < pace_n
    /\ pace_events' = pace_events
                         \o <<[ev |-> "request", arg |-> pace_done + 1]>>
                         \o SleepsAfter(pace_done + 1, pace_n, FALSE)
    /\ pace_done' = pace_done + 1
    /\ UNCHANGED <<pace_n, pace_failed, pace_pc>>

\* one iteration of the inner loop whose try raises: players_failed += 1;
\* continue
PacedPlayerRaises ==
    /\ pace_pc = "loop"
    /\ pace_done < pace_n
    /\ pace_failed < MaxFetchFailures
    /\ pace_events' = pace_events
                         \o <<[ev |-> "request", arg |-> pace_done + 1]>>
                         \o SleepsAfter(pace_done + 1, pace_n, TRUE)
    /\ pace_failed' = pace_failed + 1
    /\ pace_done' = pace_done + 1
    /\ UNCHANGED <<pace_n, pace_pc>>

\* the outer loop ends
PacedLoopEnds ==
    /\ pace_pc = "loop"
    /\ pace_done = pace_n
    /\ pace_pc' = "done"
    /\ UNCHANGED <<pace_n, pace_done, pace_failed, pace_events>>

NextPacing ==
    \/ PacedPlayerOk
          /\ UNCHANGED <<upsertVars, pctVars, jobVars, retryVars, rateVars, buildVars, logVars, shotVars,
                         careerVars>>
    \/ PacedPlayerRaises
          /\ UNCHANGED <<upsertVars, pctVars, jobVars, retryVars, rateVars, buildVars, logVars, shotVars,
                         careerVars>>
    \/ PacedLoopEnds
          /\ UNCHANGED <<upsertVars, pctVars, jobVars, retryVars, rateVars, buildVars, logVars, shotVars,
                         careerVars>>

SpecPacing == InitPacing /\ [][NextPacing]_vars

\* the place of the request for player idx among the events
RequestAt(idx) ==
    CHOOSE p \in 1..Len(pace_events) :
        pace_events[p] = [ev |-> "request", arg |-> idx]

\* the seconds slept after the request for player idx and before the next
\* request (or until now)
SleptAfter(idx) ==
    LET from == RequestAt(idx) + 1
        to == IF idx < pace_done THEN RequestAt(idx + 1) - 1 ELSE Len(pace_events)
    IN  [k \in 1..(to - from + 1) |-> pace_events[from + k - 1].arg]

\* C23 (as claimed): between the requests for two consecutive players of
\* one batch of 10 the job sleeps the 3-second inter-player delay, also
\* when the earlier player's fetch failed; between two consecutive batches
\* it sleeps the 30-second pause; nothing is slept after the last player.
C23_PausesBetweenPlayersAndBatches ==
    \A idx \in 1..pace_done :
        (idx < pace_done \/ pace_pc = "done") =>
        SleptAfter(idx) =
           IF idx = pace_n THEN <<>>
           ELSE IF BatchNum(idx) = BatchNum(idx + 1) THEN <<INTER_PLAYER_DELAY>>
           ELSE <<INTER_BATCH_DELAY>>

(***************************************************************************)
(* SpecShots: the list of shot records of one player, built either by      *)
(* fetch_shot_charts.transform_shot_rows from a ShotChartDetail frame of   *)
(* 1 to MaxShotRows rows, or by seed_mock_data.generate_shots_for_player   *)
(* over up to MaxSeedShots shots, and handed to the shot_chart_data        *)
(* upsert.                                                                 *)
(***************************************************************************)
MaxShotRows == 2
MaxSeedShots == 3
MaxSecond == 1

ShotPlayer == 1

\* ShotChartDetail rows: LOC_X, SECONDS_REMAINING and SHOT_MADE_FLAG vary
\* (NAN: the cell is missing), GAME_ID is the game's id or empty
ShotRows ==
    {[GAME_ID |-> g, GAME_DATE |-> "20251225", LOC_X |-> x, LOC_Y |-> 5, PERIOD |-> 1,
      MINUTES_REMAINING |-> 0, SECONDS_REMAINING |-> sec, SHOT_MADE_FLAG |-> f] :
        g \in {"", "0022500001"}, x \in {NAN, 0}, sec \in {30, 31}, f \in {NAN, 0, 1}}

\* safe_int(value): None for NaN and None
safe_int(value) == IF value = NAN \/ value = NULL THEN NULL ELSE value

\* the rows transform_shot_rows keeps: LOC_X, LOC_Y, GAME_ID, GAME_DATE
\* and SHOT_MADE_FLAG present
ShotRowKept(row) ==
    /\ safe_int(row.LOC_X) # NULL
    /\ safe_int(row.LOC_Y) # NULL
    /\ row.GAME_ID # ""
    /\ row.GAME_DATE # ""
    /\ row.SHOT_MADE_FLAG # NAN /\ row.SHOT_MADE_FLAG # NULL

\* transform_shot_rows: one record per kept row, in the frame's order
transform_shot_rows(shots_df, nba_player_id) ==
    LET kept == SelectSeq(shots_df, ShotRowKept) IN
    [k \in 1..Len(kept) |->
        [nba_player_id |-> nba_player_id, game_id |-> kept[k].GAME_ID,
         loc_x |-> safe_int(kept[k].LOC_X), loc_y |-> safe_int(kept[k].LOC_Y),
         period |-> safe_int(kept[k].PERIOD),
         minutes_remaining |-> safe_int(kept[k].MINUTES_REMAINING),
         seconds_remaining |-> safe_int(kept[k].SECONDS_REMAINING),
         shot_made |-> (kept[k].SHOT_MADE_FLAG = 1)]]

\* the conflict key of shot_chart_data
ShotKey(r) ==
    <<r.nba_player_id, r.game_id, r.loc_x, r.loc_y, r.period, r.minutes_remaining,
      r.seconds_remaining>>

\* what the generator draws for one shot: the game, the coordinates and
\* the period
SeedDraws ==
    {[game_id |-> "seed-1", loc_x |-> x, loc_y |-> 5, period |-> 1] : x \in {0, 10}}

\* the clock readings an attempt can draw
SeedClocks == {<<0, sec>> : sec \in 0..MaxSecond}

SeedKey(d, clock) ==
    <<ShotPlayer, d.game_id, d.loc_x, d.loc_y, d.period, clock[1], clock[2]>>

\* no clock found: every attempt collided
NoClock == <<NULL, NULL>>

\* how the attempts of one shot can end: with the first drawn clock whose
\* key is not in seen_keys, or, when each attempt drew a key of seen_keys,
\* without one
AttemptOutcomes(d) ==
    {clock \in SeedClocks : SeedKey(d, clock) \notin sh_seen}
    \cup (IF \E clock \in SeedClocks : SeedKey(d, clock) \in sh_seen
          THEN {NoClock} ELSE {})

InitShots ==
    /\ sh_pc \in {"transform", "generate"}
    /\ sh_df \in (IF sh_pc = "transform"
                  THEN UNION {[1..n -> ShotRows] : n \in 1..MaxShotRows}
                  ELSE {<<>>})
    /\ sh_seen = {}
    /\ sh_records = <<>>
    /\ LogIdle /\ PaceIdle /\ CareerIdle
    /\ r_k = 0 /\ r_d = 0 /\ r_attempt = 0 /\ r_events = <<>> /\ r_pc = "idle"
    /\ rl_clock = ProcessStartTime /\ rl_last = 0 /\ rl_pc = "idle" /\ rl_wake = 0
    /\ rl_returns = <<>>
    /\ BuildIdle
    /\ UpsertIdle /\ PctIdle /\ JobIdle /\ players = <<>>

\* fetch_shot_charts: records = transform_shot_rows(...); if records:
\* upsert_shot_records(records)
TransformShotRows ==
    /\ sh_pc = "transform"
    /\ sh_records' = transform_shot_rows(sh_df, ShotPlayer)
    /\ sh_pc' = IF sh_records' = <<>> THEN "done" ELSE "upsert"
    /\ UNCHANGED <<sh_df, sh_seen>>

\* seed_mock_data: one shot of the profile: the draws, the attempts at a
\* unique key, and the append (or the skip when every attempt collided)
GenerateShot(d, clock) ==
    /\ sh_pc = "generate"
    /\ Len(sh_records) < MaxSeedShots
    /\ clock \in AttemptOutcomes(d)
    /\ IF clock = NoClock
       THEN UNCHANGED <<sh_seen, sh_records>>
       ELSE /\ sh_seen' = sh_seen \cup {SeedKey(d, clock)}
            /\ sh_records' = Append(sh_records,
                                    [nba_player_id |-> ShotPlayer, game_id |-> d.game_id,
                                     loc_x |-> d.loc_x, loc_y |-> d.loc_y,
                                     period |-> d.period, minutes_remaining |-> clock[1],
                                     seconds_remaining |-> clock[2], shot_made |-> TRUE])
    /\ UNCHANGED <<sh_df, sh_pc>>

\* seed_mock_data: rng.shuffle(shots); return shots; main hands the list to
\* batch_upsert("shot_chart_data", shots, ...)
GenerateReturns(perm) ==
    /\ sh_pc = "generate"
    /\ sh_records' = [k \in 1..Len(sh_records) |-> sh_records[perm[k]]]
    /\ sh_pc' = "upsert"
    /\ UNCHANGED <<sh_df, sh_seen>>

NextShots ==
    \/ TransformShotRows
          /\ UNCHANGED <<upsertVars, pctVars, jobVars, retryVars, rateVars, buildVars,
                         logVars, paceVars, careerVars>>
    \/ \E d \in SeedDraws, clock \in SeedClocks \cup {NoClock} :
          GenerateShot(d, clock)
          /\ UNCHANGED <<upsertVars, pctVars, jobVars, retryVars, rateVars, buildVars,
                         logVars, paceVars, careerVars>>
    \/ \E perm \in Permutations(1..Len(sh_records)) :
          GenerateReturns(perm)
          /\ UNCHANGED <<upsertVars, pctVars, jobVars, retryVars, rateVars, buildVars,
                         logVars, paceVars, careerVars>>

SpecShots == InitShots /\ [][NextShots]_vars

\* C24 (as claimed): no list of shot records handed to a shot_chart_data
\* upsert, by fetch_shot_charts or by seed_mock_data, holds two records
\* with the same (nba_player_id, game_id, loc_x, loc_y, period,
\* minutes_remaining, seconds_remaining).
C24_NoCollidingShotKeys ==
    sh_pc = "upsert" =>
        \A i, j \in 1..Len(sh_records) :
            ShotKey(sh_records[i]) = ShotKey(sh_records[j]) => i = j

(***************************************************************************)
(* SpecOrder: one run of any of the six scripts over the players           *)
(* OrderPlayers, as Spec, with responses large enough for several upsert   *)
(* chunks: a player's response holds no record or ManyRecords records      *)
(* (2 * ManyRecords shots).                                                *)
(***************************************************************************)
ManyRecords == 60

OrderPlayers == {1, 2}

InitOrder == \E j \in Jobs : InitJob(j, OrderPlayers)

NextOrder ==
    \/ LogRefreshStartOk /\ UNCHANGED <<pctVars, fetchVars>>
    \/ LogRefreshStartRaises /\ UNCHANGED <<pctVars, fetchVars>>
    \/ \E df \in IndexFrames(DOMAIN players) : FetchPlayerIndexReturns(df) /\ UNCHANGED <<pctVars, fetchVars>>
    \/ FetchPlayerIndexRaises /\ UNCHANGED <<pctVars, fetchVars>>
    \/ \E df \in LeagueFrames(DOMAIN players) : FetchLeagueStatsReturns(df) /\ UNCHANGED <<pctVars, fetchVars>>
    \/ FetchLeagueStatsRaises /\ UNCHANGED <<pctVars, fetchVars>>
    \/ (pc = "upsert" /\ UpsertChunkOk) /\ UNCHANGED <<pctVars, fetchVars, ledger, ctlVars, localVars>>
    \/ (pc = "upsert" /\ UpsertChunkRaises) /\ UNCHANGED <<pctVars, fetchVars, ledger, ctlVars, localVars>>
    \/ (pc = "upsert" /\ UpsertReturn) /\ UNCHANGED <<pctVars, fetchVars, ledger, ctlVars, localVars>>
    \/ AfterUpsert /\ UNCHANGED <<pctVars, fetchVars>>
    \/ \E done \in SUBSET DOMAIN players, raised \in BOOLEAN :
          MarkInactive(done, raised) /\ UNCHANGED <<pctVars, fetchVars>>
    \/ GetTier1Returns /\ UNCHANGED <<pctVars, fetchVars>>
    \/ GetTier1Raises /\ UNCHANGED <<pctVars, fetchVars>>
    \/ \E n \in {0, ManyRecords} : PlayerFetchReturns(n) /\ UNCHANGED <<pctVars, fetchVars>>
    \/ PlayerFetchRaises /\ UNCHANGED <<pctVars, fetchVars>>
    \/ LoopDone /\ UNCHANGED <<pctVars, fetchVars>>
    \/ \E adv_df \in {<<>>, UpstreamAdvFrame(DOMAIN players, unit_i + 1)} :
          SeasonReturns(adv_df) /\ UNCHANGED <<pctVars, fetchVars>>
    \/ SeasonRaises /\ UNCHANGED <<pctVars, fetchVars>>
    \/ \E query_ok \in BOOLEAN : ResumeCheck(query_ok) /\ UNCHANGED <<pctVars, fetchVars>>
    \/ \E n, m \in {0, 2 * ManyRecords} : ShotFetchReturns(n, m) /\ UNCHANGED <<pctVars, fetchVars>>
    \/ ShotLoopDone /\ UNCHANGED <<pctVars, fetchVars>>
    \/ GetTier1AdvReturns /\ UNCHANGED <<pctVars, fetchVars>>
    \/ UpdateOk /\ UNCHANGED <<pctVars, fetchVars>>
    \/ UpdateRaises /\ UNCHANGED <<pctVars, fetchVars>>
    \/ UpdateDone /\ UNCHANGED <<pctVars, fetchVars>>
    \/ LogRefreshCompleteOk /\ UNCHANGED <<pctVars, fetchVars>>
    \/ LogRefreshCompleteRaises /\ UNCHANGED <<pctVars, fetchVars>>
    \/ HandlerLogFailedOk /\ UNCHANGED <<pctVars, fetchVars>>
    \/ HandlerLogFailedRaises /\ UNCHANGED <<pctVars, fetchVars>>

SpecOrder == InitOrder /\ [][NextOrder]_vars

\* the upsert function has returned after one attempt per chunk of records
ChunksAttempted ==
    /\ u_pc = "done"
    /\ Len(u_ops) = CeilDiv(Len(u_records), u_batch)
    /\ \A o \in 1..Len(u_ops) :
          /\ u_ops[o].first = (o - 1) * u_batch
          /\ u_ops[o].size = Min(u_batch, Len(u_records) - u_ops[o].first)

\* every upsert the run has to make was made, chunk by chunk: the one of
\* all the run's records, or (fetch_shot_charts) the one of each player;
\* for calculate_percentiles, the update of every row
EveryUpsertAttempted ==
    CASE job = "fetch_shot_charts" ->
            /\ unit_i = Len(units)
            /\ u_pc \in {"idle", "done"}
            /\ u_pc = "done" => ChunksAttempted
      [] job = "calculate_percentiles" -> unit_i = Len(units)
      [] OTHER ->
            /\ unit_i = Len(units)
            /\ IF all_records = <<>> THEN u_pc = "idle"
               ELSE u_records = all_records /\ ChunksAttempted

\* the step in which main calls log_refresh_complete
CompleteStep == calls' = Append(calls, "complete")

\* the step in which fetch_players runs mark_inactive_players
MarkInactiveStep == pc = "inactive" /\ pc' # "inactive"

\* C25: in every run the ledger entry is marked 'completed' only by the
\* call of log_refresh_complete, which comes after every upsert chunk of
\* the run was attempted; an upsert function returns only after one attempt
\* per chunk; in fetch_players mark_inactive_players runs after all player
\* chunks were attempted, while the entry is still 'started', and the call
\* of log_refresh_complete is reached only through it.
C25_LedgerUpdateComesLast ==
    [][/\ \A k \in DOMAIN ledger :
             (ledger'[k].status = "completed" /\ ledger[k].status # "completed")
                => CompleteStep /\ k = log_id
       /\ CompleteStep => pc = "complete" /\ EveryUpsertAttempted
       /\ (u_pc' = "done" /\ pc' = "upsert") => ChunksAttempted'
       /\ MarkInactiveStep =>
             /\ EveryUpsertAttempted
             /\ ledger[log_id].status = "started"
             /\ "complete" \notin Range(calls)
             /\ pc' = "complete"
       /\ (job = "fetch_players" /\ pc' = "complete" /\ pc # "complete") =>
             MarkInactiveStep
      ]_vars

\* a fetch_game_logs run over two players with ManyRecords games each:
\* three chunks attempted, the second failed, then the entry completed
C25_Witness ==
    /\ job = "fetch_game_logs" /\ pc = "exited" /\ exit_code = 0
    /\ ledger[log_id].status = "completed"
    /\ Len(u_records) = 2 * ManyRecords
    /\ Len(u_ops) = 3 /\ u_ops[1].ok /\ ~u_ops[2].ok /\ u_ops[3].ok

(***************************************************************************)
(* C26: the terminal transitions of a run's ledger entry (checked under    *)
(* Spec)                                                                   *)
(***************************************************************************)

\* the step in which the except handler calls log_refresh_failed
FailedStep == calls' = Append(calls, "failed")

\* C26 (amended): in one run log_refresh_complete is invoked at most once
\* and never after log_refresh_failed, and log_refresh_failed at most once;
\* a run whose log_refresh_complete returned exits with status 0, its entry
\* 'completed' and log_refresh_failed not invoked; an entry written
\* 'failed' is never overwritten, and an entry written 'completed' is
\* overwritten only by the log_refresh_failed that the handler invokes
\* right after a log_refresh_complete that raised.
C26_OneTerminalTransitionUnlessCompleteRaises ==
    [][/\ CompleteStep => "complete" \notin Range(calls) /\ "failed" \notin Range(calls)
       /\ FailedStep => "failed" \notin Range(calls)
       /\ exit_code' = 0 =>
             /\ "failed" \notin Range(calls')
             /\ calls'[Len(calls')] = "complete"
             /\ ledger'[log_id'].status = "completed"
       /\ \A k \in DOMAIN ledger :
             /\ ledger[k].status = "failed" => ledger'[k].status = "failed"
             /\ (ledger[k].status = "completed" /\ ledger'[k].status # "completed") =>
                   /\ FailedStep /\ k = log_id
                   /\ calls[Len(calls)] = "complete"
      ]_vars

\* log_refresh_complete raised after its update had reached the datastore,
\* and the handler's log_refresh_failed overwrote the entry
C26_Witness ==
    /\ calls = <<"start", "complete", "failed">>
    /\ pc = "exited" /\ exit_code = 1
    /\ ledger[log_id].status = "failed"
    /\ ledger[log_id].players_updated # NULL

\* C26 (as claimed): log_refresh_complete and log_refresh_failed are never
\* both invoked for the ledger entry of one run.
C26_NeverBothInvoked ==
    ~("complete" \in Range(calls) /\ "failed" \in Range(calls))

(***************************************************************************)
(* SpecResume: fetch_shot_charts run up to MaxRuns times for one season,   *)
(* one process after the other, starting from an empty shot_chart_data;    *)
(* upstream every player has no shot or 2 * ManyRecords shots (two upsert  *)
(* chunks); a process can be killed at any point.                          *)
(***************************************************************************)
ResumePlayers == {1, 2}

InitResume ==
    /\ InitJob("fetch_shot_charts", ResumePlayers)
    /\ ActiveTier1 = ResumePlayers
    /\ u_store["shot_chart_data"] = {}

NextResume ==
    \/ (Len(ledger) < MaxRuns /\ ProcessStart("fetch_shot_charts")) /\ UNCHANGED <<pctVars, fetchVars>>
    \/ Kill /\ UNCHANGED <<pctVars, fetchVars>>
    \/ LogRefreshStartOk /\ UNCHANGED <<pctVars, fetchVars>>
    \/ LogRefreshStartRaises /\ UNCHANGED <<pctVars, fetchVars>>
    \/ GetTier1Returns /\ UNCHANGED <<pctVars, fetchVars>>
    \/ GetTier1Raises /\ UNCHANGED <<pctVars, fetchVars>>
    \/ \E query_ok \in BOOLEAN : ResumeCheck(query_ok) /\ UNCHANGED <<pctVars, fetchVars>>
    \/ \E m \in {0, 2 * ManyRecords} : ShotFetchReturns(m, m) /\ UNCHANGED <<pctVars, fetchVars>>
    \/ PlayerFetchRaises /\ UNCHANGED <<pctVars, fetchVars>>
    \/ ShotLoopDone /\ UNCHANGED <<pctVars, fetchVars>>
    \/ (pc = "upsert" /\ UpsertChunkOk) /\ UNCHANGED <<pctVars, fetchVars, ledger, ctlVars, localVars>>
    \/ (pc = "upsert" /\ UpsertChunkRaises) /\ UNCHANGED <<pctVars, fetchVars, ledger, ctlVars, localVars>>
    \/ (pc = "upsert" /\ UpsertReturn) /\ UNCHANGED <<pctVars, fetchVars, ledger, ctlVars, localVars>>
    \/ AfterUpsert /\ UNCHANGED <<pctVars, fetchVars>>
    \/ LogRefreshCompleteOk /\ UNCHANGED <<pctVars, fetchVars>>
    \/ LogRefreshCompleteRaises /\ UNCHANGED <<pctVars, fetchVars>>
    \/ HandlerLogFailedOk /\ UNCHANGED <<pctVars, fetchVars>>
    \/ HandlerLogFailedRaises /\ UNCHANGED <<pctVars, fetchVars>>

SpecResume == InitResume /\ [][NextResume]_vars

\* every record built from the player's shots is in shot_chart_data
AllShotsPersisted(pid) ==
    Range(UnitRecords(pid, 2 * ManyRecords)) \subseteq u_store["shot_chart_data"]

\* C27 (as claimed): in a sequence of fetch_shot_charts runs with resume
\* enabled, every player skipped as already fetched has all the shot
\* records built by the earlier fetch persisted: a player with a failed
\* upsert chunk, or whose upsert was interrupted between chunks, is not
\* skipped.
C27_SkippedPlayersHaveAllShots ==
    (job = "fetch_shot_charts" /\ ~no_resume) =>
        \A pid \in already_fetched : AllShotsPersisted(pid)


(***************************************************************************)
(* The count written to the ledger on completion                           *)
(***************************************************************************)
\* the jobs whose mains pass a count of players to log_refresh_complete
CountingJobs == {"fetch_season_stats", "fetch_advanced_stats", "fetch_game_logs",
                 "fetch_shot_charts"}

\* the players of the records of the chunks whose upsert returned, in the
\* upsert call the state holds
OkChunkPlayers ==
    {u_records[k].nba_player_id :
        k \in {k \in 1..Len(u_records) :
                 \E o \in 1..Len(u_ops) :
                    u_ops[o].ok /\ u_ops[o].first < k /\ k <= u_ops[o].first + u_ops[o].size}}

\* an upper bound of the players with at least one record successfully
\* upserted in the run: the three jobs with one upsert call per run have
\* exactly the players of its successful chunks; fetch_shot_charts makes one
\* call per player, and every successful chunk leaves its records in the
\* table, so the players with a row in shot_chart_data bound them from above
PlayersUpserted ==
    IF job = "fetch_shot_charts"
    THEN {r.nba_player_id : r \in u_store["shot_chart_data"]}
    ELSE OkChunkPlayers

\* C28: whenever one of the four counting jobs has completed, the
\* players_updated value it wrote to its ledger row is at most the number of
\* distinct players for whom at least one record was successfully upserted
\* in that run.
C28_CountNeverOverstates ==
    (job \in CountingJobs /\ pc = "exited" /\ exit_code = 0)
        => ledger[log_id].players_updated <= Cardinality(PlayersUpserted)


(***************************************************************************)
(* SpecKeys: the records two jobs hand to their batched upsert.            *)
(* build_player_records on PlayerIndex frames of up to MaxIndexRows rows   *)
(* (repeated and unnamed rows), and extract_player_seasons on career       *)
(* frames of up to MaxCareerRows rows: rows of a target season, of an      *)
(* older season and without SEASON_ID, several rows of one season (the     *)
(* per-team rows and the total row of a traded player).                    *)
(***************************************************************************)
MaxCareerRows == 2

CareerPlayer == 1

\* SEASON_ID of a season older than the target seasons
OlderSeason == 0

\* the rows of SeasonTotalsRegularSeason: two target seasons, an older
\* season, a missing SEASON_ID; two values of GP
CareerRows == [SEASON_ID : {NULL, OlderSeason, 1, 2}, GP : {10, 72}]

\* transform_season_row: season = str(SEASON_ID) if it is present else None,
\* season_type = "Regular Season", the statistics of the row
transform_season_row(nba_player_id, row) ==
    [nba_player_id |-> nba_player_id, season_type |-> "Regular Season",
     season |-> row.SEASON_ID, gp |-> row.GP]

\* the rows extract_player_seasons keeps: SEASON_ID in target_seasons and
\* record.get("season") truthy
CareerRowKept(row) == row.SEASON_ID \in Seasons /\ row.SEASON_ID # NULL

\* extract_player_seasons(nba_player_id, career_df, target_seasons, now):
\* one record per kept row, in row order
extract_player_seasons(nba_player_id, career_df) ==
    SelectSeq([k \in 1..Len(career_df) |-> transform_season_row(nba_player_id, career_df[k])],
              LAMBDA r : CareerRowKept([SEASON_ID |-> r.season, GP |-> r.gp]))

InitKeys ==
    /\ index_df \in FramesUpTo(MaxIndexRows, [PERSON_ID : TierIds, named : BOOLEAN])
    /\ stats_df = <<>>
    /\ c_df \in FramesUpTo(MaxCareerRows, CareerRows)
    /\ c_records = <<>>
    /\ c_pc = "ready"
    /\ all_records = <<>>
    /\ pc = "idle"
    /\ job = "none"
    /\ players = <<>>
    /\ start_players = <<>>
    /\ start_store = <<>>
    /\ ledger = <<>>
    /\ adv = <<>>
    /\ log_id = 0
    /\ exit_code = NULL
    /\ calls = <<>>
    /\ api_requests = {}
    /\ units = <<>>
    /\ unit_i = 0
    /\ processed = 0
    /\ no_resume = FALSE
    /\ failed = {}
    /\ already_fetched = {}
    /\ UpsertIdle
    /\ PctIdle
    /\ r_k = 0
    /\ r_d = 0
    /\ r_attempt = 0
    /\ r_events = <<>>
    /\ r_pc = "idle"
    /\ rl_clock = ProcessStartTime
    /\ rl_last = 0
    /\ rl_pc = "idle"
    /\ rl_wake = 0
    /\ rl_returns = <<>>
    /\ BuildIdle /\ LogIdle /\ PaceIdle /\ ShotIdle

\* records = extract_player_seasons(player_id, career_df, target_season_set, now)
ExtractPlayerSeasons ==
    /\ c_pc = "ready"
    /\ c_records' = extract_player_seasons(CareerPlayer, c_df)
    /\ c_pc' = "returned"
    /\ UNCHANGED <<c_df, upsertVars, pctVars, jobVars, retryVars, rateVars, buildVars,
                   logVars, paceVars, shotVars>>

NextKeys ==
    \/ BuildPlayerRecords
    \/ ExtractPlayerSeasons

SpecKeys == InitKeys /\ [][NextKeys]_vars

\* the conflict key of upsert_season_stats
SeasonKey(r) == <<r.nba_player_id, r.season, r.season_type>>

\* C29: the records build_player_records returns have pairwise different
\* nba_player_id, and the records extract_player_seasons returns have
\* pairwise different (nba_player_id, season, season_type), whatever rows
\* the roster and the career table repeat.
C29_RecordsUniqueOnConflictKey ==
    /\ pc = "built" =>
          \A i, j \in 1..Len(all_records) :
              i # j => all_records[i].nba_player_id # all_records[j].nba_player_id
    /\ c_pc = "returned" =>
          \A i, j \in 1..Len(c_records) :
              i # j => SeasonKey(c_records[i]) # SeasonKey(c_records[j])


(***************************************************************************)
(* SpecTies: the percentile functions on one pool of MaxPool players whose *)
(* rows arrive in different orders.  The pool is the plain rows of players *)
(* 1..MaxPool (ws tied in pairs, bpm three-valued), possibly with one row  *)
(* replaced by a row tied with its predecessor in ts_pct and usg_pct, a    *)
(* row with a missing value or a row below the minutes threshold; the rows *)
(* come in ascending player order, with two rows exchanged, or reversed.   *)
(***************************************************************************)
MaxPool == 10

TieKinds == {"tie", "null", "bench"}

PlainPool == [k \in 1..MaxPool |-> PlainRow(k)]

\* the pools, in ascending player order
PoolsById ==
    {PlainPool} \cup
    {[PlainPool EXCEPT ![k] = MakeRow(k, kind)] : k \in 1..MaxPool, kind \in TieKinds}

Exchange(rows, i, j) ==
    [k \in 1..Len(rows) |-> IF k = i THEN rows[j] ELSE IF k = j THEN rows[i] ELSE rows[k]]

Reversed(rows) == [k \in 1..Len(rows) |-> rows[Len(rows) + 1 - k]]

\* the orders in which the rows of a pool are handed to the functions
Orders(rows) ==
    {rows, Reversed(rows)} \cup
    {Exchange(rows, i, j) : i, j \in 1..Len(rows)}

InitTies ==
    /\ p_rows \in UNION {Orders(rows) : rows \in PoolsById}
    /\ p_all = <<>>
    /\ p_all_done = FALSE
    /\ p_applied = <<>>
    /\ p_app_done = FALSE
    /\ UpsertIdle /\ JobIdle /\ FetchIdle /\ players = <<>>

NextTies ==
    \/ ComputeAll /\ UNCHANGED <<upsertVars, jobVars, fetchVars>>
    \/ ApplyPercentiles /\ UNCHANGED <<upsertVars, jobVars, fetchVars>>

SpecTies == InitTies /\ [][NextTies]_vars

\* the row of player pid (a pool has one row per player)
RowOf(rows, pid) == rows[CHOOSE k \in 1..Len(rows) : rows[k].nba_player_id = pid]

\* the rows in ascending player order
ById(rows) ==
    [k \in 1..Len(rows) |->
        rows[CHOOSE i \in 1..Len(rows) :
                Cardinality({j \in 1..Len(rows) :
                                rows[j].nba_player_id < rows[i].nba_player_id}) = k - 1]]

\* the players of the pool compute_percentile_map ranks for stat_col
QualifyingIds(rows, stat_col) == PlayerIds(Qualifying(rows, stat_col))

\* the percentile apply_percentiles attached to player pid
AppliedTo(pid, col) == RowOf(p_applied, pid)[col]

\* C30: in one call of compute_all_percentiles, two players with a present
\* and equal value of a statistic get the same percentile of it, and every
\* player gets what the call returns on the same rows in ascending player
\* order; in one call of compute_percentile_map (through apply_percentiles,
\* for ts_pct and usg_pct), two players of the qualifying pool with equal
\* values get the same percentile, and every player gets what the call
\* returns on the rows in ascending player order.
C30_TiesShareRankInAnyOrder ==
    LET ids == PlayerIds(p_rows)
        row == [pid \in ids |-> RowOf(p_rows, pid)]
        sorted == [k \in 1..Len(p_rows) |-> ById(p_rows)[k]]
    IN  /\ p_all_done =>
              /\ \A c \in Range(StatCols) : \A a, b \in ids :
                    (row[a][c] # NULL /\ row[a][c] = row[b][c])
                        => p_all[a][STAT_TO_PCTILE[c]] = p_all[b][STAT_TO_PCTILE[c]]
              /\ p_all = compute_all_percentiles(sorted)
        /\ p_app_done =>
              \A c \in {"ts_pct", "usg_pct"} :
                 LET pool == QualifyingIds(p_rows, c)
                     got == [pid \in ids |-> AppliedTo(pid, STAT_TO_PCTILE[c])]
                     map == compute_percentile_map(sorted, c)
                 IN  /\ \A a, b \in pool :
                           row[a][c] = row[b][c] => got[a] = got[b]
                     /\ \A a \in ids : got[a] = map[a]

\* both functions have ranked a pool handed over in descending player
\* order: players 1 and 2 (tied in ws) share a ws percentile, players 4 and
\* 5 (tied in ts_pct) share a ts percentile
C30_Witness ==
    /\ p_all_done /\ p_app_done
    /\ p_rows[1].nba_player_id = MaxPool
    /\ p_rows = Reversed(ById(p_rows))
    /\ p_all[1].ws_pctile = p_all[2].ws_pctile /\ p_all[1].ws_pctile # NULL
    /\ RowOf(p_rows, 5).ts_pct = RowOf(p_rows, 4).ts_pct
    /\ AppliedTo(5, "ts_pctile") = AppliedTo(4, "ts_pctile")
    /\ AppliedTo(5, "ts_pctile") # NULL

====
